---------------------------- MODULE Spec2Model ----------------------------
(***************************************************************************)
(* The customer order-composition and submission workflow of the B2B store *)
(* (src/src/pages/customer/CustomerDashboard.tsx) together with the REST   *)
(* client it calls (src/unnamed/part_001, the services/api module) and the *)
(* session provider (src/unnamed/part_000, the AuthContext module).        *)
(*                                                                         *)
(* JavaScript strings on which the code computes (trim, parseInt, object   *)
(* keys) are sequences of one-character strings; strings the code only     *)
(* copies (colours, names, messages) are TLA+ strings.  A JavaScript       *)
(* object is the sequence of its own properties, [key, val] records, in    *)
(* the order Object.values / Object.entries enumerate them.                *)
(***************************************************************************)
EXTENDS Integers, Sequences, FiniteSets, TLC

(***************************************************************************)
(* Text                                                                    *)
(***************************************************************************)
Digits == <<"0", "1", "2", "3", "4", "5", "6", "7", "8", "9">>

IsDigit(c) == \E i \in 1..10 : Digits[i] = c

DigitVal(c) == (CHOOSE i \in 1..10 : Digits[i] = c) - 1

\* A character of a text is held as a string: an ASCII character as itself,
\* any other UTF-16 code unit as U+ and its four hexadecimal digits, so
\* "U+00E9" is e with acute and "U+200B" the zero width space.
\*
\* The code points String.prototype.trim and parseInt strip: WhiteSpace and
\* LineTerminator of ECMAScript, that is tab, line feed, vertical tab, form
\* feed, carriage return, space, no-break space, ogham space mark, the
\* spaces U+2000..U+200A, line and paragraph separator, narrow no-break
\* space, medium mathematical space, ideographic space and the byte order
\* mark.  U+0085, U+180E and U+200B are not among them.
WhiteSpace ==
  {"\t", "\n", "", "\f", "\r", " ",
   "U+00A0", "U+1680",
   "U+2000", "U+2001", "U+2002", "U+2003", "U+2004", "U+2005", "U+2006",
   "U+2007", "U+2008", "U+2009", "U+200A",
   "U+2028", "U+2029", "U+202F", "U+205F", "U+3000", "U+FEFF"}

IsSpace(c) == c \in WhiteSpace

RECURSIVE SkipSpace(_)
SkipSpace(s) ==
  IF s # <<>> /\ IsSpace(Head(s)) THEN SkipSpace(Tail(s)) ELSE s

RECURSIVE DropTrailingSpace(_)
DropTrailingSpace(s) ==
  IF s # <<>> /\ IsSpace(s[Len(s)])
  THEN DropTrailingSpace(SubSeq(s, 1, Len(s) - 1))
  ELSE s

\* String.prototype.trim
Trim(s) == DropTrailingSpace(SkipSpace(s))

\* String.prototype.split: the parts of a text between the separators.
RECURSIVE Split(_, _, _)
Split(text, sep, part) ==
  IF text = <<>> THEN <<part>>
  ELSE IF Head(text) = sep THEN <<part>> \o Split(Tail(text), sep, <<>>)
  ELSE Split(Tail(text), sep, Append(part, Head(text)))

\* The result of parseInt is <<n>>, or NaN when no digit follows the
\* optional sign.
NaN == <<>>

\* The digits of radix 16, an upper-case and a lower-case text.
HexUpper ==
  <<"0", "1", "2", "3", "4", "5", "6", "7", "8", "9",
    "A", "B", "C", "D", "E", "F">>
HexLower ==
  <<"0", "1", "2", "3", "4", "5", "6", "7", "8", "9",
    "a", "b", "c", "d", "e", "f">>

\* The value of c as a digit of the radix, or -1 when it is none.
RadixVal(c, radix) ==
  LET found == {i \in 1..radix : HexUpper[i] = c \/ HexLower[i] = c}
  IN  IF found = {} THEN 0 - 1 ELSE (CHOOSE i \in found : TRUE) - 1

RECURSIVE ParseDigits(_, _, _, _)
ParseDigits(s, radix, acc, seen) ==
  IF s # <<>> /\ RadixVal(Head(s), radix) >= 0
  THEN ParseDigits(Tail(s), radix, acc * radix + RadixVal(Head(s), radix),
                   TRUE)
  ELSE IF seen THEN <<acc>> ELSE NaN

\* parseInt(value) with no radix: leading white space is skipped, one sign
\* is read, a 0x or 0X that follows selects radix 16 and is skipped, then
\* the longest run of digits of the radix is read; whatever follows is
\* ignored.  The result is exact for the texts of this model, whose numbers
\* stay far below 2^53.
parseInt(value) ==
  LET t    == SkipSpace(value)
      sign == t # <<>> /\ Head(t) \in {"-", "+"}
      u    == IF sign THEN Tail(t) ELSE t
      hex  == Len(u) >= 2 /\ u[1] = "0" /\ u[2] \in {"x", "X"}
      r    == IF hex
              THEN ParseDigits(SubSeq(u, 3, Len(u)), 16, 0, FALSE)
              ELSE ParseDigits(u, 10, 0, FALSE)
  IN  IF r = NaN THEN NaN
      ELSE IF sign /\ Head(t) = "-" THEN <<0 - r[1]>> ELSE r

\* `parseInt(value) || 0`: NaN and 0 (also -0) are falsy.
ParseQty(value) ==
  LET r == parseInt(value) IN IF r = NaN \/ r[1] = 0 THEN 0 ELSE r[1]

RECURSIVE NumToChars(_)
\* String(n) for a non-negative integer n, as a property key.
NumToChars(n) ==
  IF n < 10 THEN <<Digits[n + 1]>>
  ELSE NumToChars(n \div 10) \o <<Digits[(n % 10) + 1]>>

(***************************************************************************)
(* JavaScript objects used as maps (Record<string, T>)                     *)
(***************************************************************************)
\* The largest integer index, 2^32 - 2, as a property key.
MaxIndexKey == <<"4", "2", "9", "4", "9", "6", "7", "2", "9", "4">>

\* Numeric order of two canonical decimal texts: the shorter is the smaller,
\* texts of one length compare digit by digit.
IndexLess(a, b) ==
  \/ Len(a) < Len(b)
  \/ /\ Len(a) = Len(b)
     /\ \E i \in 1..Len(a) :
          /\ \A j \in 1..(i - 1) : a[j] = b[j]
          /\ DigitVal(a[i]) < DigitVal(b[i])

\* A property key is an integer index when it is the canonical decimal text
\* of an integer from 0 to 2^32 - 2; such keys are enumerated first,
\* ascending, and every other key follows in insertion order.
IsIndexKey(k) ==
  /\ k # <<>>
  /\ \A i \in 1..Len(k) : IsDigit(k[i])
  /\ (Len(k) = 1 \/ k[1] # "0")
  /\ ~IndexLess(MaxIndexKey, k)

ObjHas(obj, k) == \E i \in 1..Len(obj) : obj[i].key = k

ObjGet(obj, k) == obj[CHOOSE i \in 1..Len(obj) : obj[i].key = k].val

InsertPos_Append(obj, k) == Len(obj) + 1

\* Where a new key k goes in obj's enumeration order.
InsertPos(obj, k) ==
  IF IsIndexKey(k)
  THEN 1 + Cardinality({i \in 1..Len(obj) :
                          /\ IsIndexKey(obj[i].key)
                          /\ IndexLess(obj[i].key, k)})
  ELSE Len(obj) + 1

\* { ...obj, [k]: v }
ObjSet(obj, k, v) ==
  IF ObjHas(obj, k)
  THEN [i \in 1..Len(obj) |->
          IF obj[i].key = k THEN [key |-> k, val |-> v] ELSE obj[i]]
  ELSE LET p == InsertPos(obj, k)
       IN  SubSeq(obj, 1, p - 1) \o <<[key |-> k, val |-> v]>>
             \o SubSeq(obj, p, Len(obj))

\* delete obj[k]
ObjDelete(obj, k) == SelectSeq(obj, LAMBDA e : e.key # k)

(***************************************************************************)
(* The catalogue served by GET /products                                   *)
(***************************************************************************)
\* Colour names, one character per element.
Navy == <<"n", "a", "v", "y">>
Red == <<"r", "e", "d">>
Black == <<"b", "l", "a", "c", "k">>

\* Product ids are the server's: mapProduct passes p.id through.  An id
\* may be the decimal text of an integer.
N1 == <<"1">>
N2 == <<"2">>

P1 == <<"P", "1">>
P2 == <<"P", "2">>

ProductP1 ==
  [id |-> P1, name |-> "Polo", styleNumber |-> "ST-1",
   colors |-> <<Navy, Red>>,
   sizes |-> << <<"M">> >>,
   sizesInNumber |-> <<32>>]

ProductP2 ==
  [id |-> P2, name |-> "Chino", styleNumber |-> "ST-2",
   colors |-> <<Black>>,
   sizes |-> << <<"S">>, <<"L">>, <<"3", "0">> >>,
   sizesInNumber |-> <<30>>]

CatalogOne == <<ProductP1>>

P0 == <<"P", "0">>

\* A product of one colour, one size label and one numeric size.
ProductP0 ==
  [id |-> P0, name |-> "Tee", styleNumber |-> "ST-0",
   colors |-> <<Navy>>,
   sizes |-> << <<"M">> >>,
   sizesInNumber |-> <<32>>]

CatalogPlain == <<ProductP0>>

CatalogTwo == <<ProductP1, ProductP2>>

\* The same two products under integer ids, the larger id served first.
CatalogNumbered ==
  <<[ProductP1 EXCEPT !.id = N2], [ProductP2 EXCEPT !.id = N1]>>

\* What a user can leave in a quantity input: empty, not a number, zero,
\* a positive number, a negative number, a decimal fraction.
RawInputs ==
  { <<>>, <<"a", "b">>, <<"0">>, <<"5">>, <<"-", "1">>, <<"5", ".", "5">> }

\* A PO number of white space only: a space and a no-break space.
BlankPo == <<" ", "U+00A0">>

\* A PO number with white space around it: a space in front, a no-break
\* space behind.
PaddedPo == <<" ", "A", "U+00A0">>

\* What a user can leave in the PO number field.
PoInputs == { <<>>, BlankPo, PaddedPo }

(***************************************************************************)
(* State                                                                   *)
(***************************************************************************)
VARIABLES
  catalog,          \* the server's product list
  ordersCreated,    \* how many orders the server has created
  authenticated,    \* AuthProvider: isAuthenticated
  hasTokens,        \* localStorage holds access_token and refresh_token
  userStored,       \* localStorage's user: its role, or "none"
  navigating,       \* window.location.href = '/' is set, not yet committed
  page,             \* the route the document shows
  products,         \* CustomerDashboard useState, as named in the source
  loading,
  selections,
  poNumber,
  poError,
  isSubmitting,
  lastOrderId,
  lastPoNumber,
  showConfirmation,
  toast,            \* the last message handed to sonner's toast
  calls,            \* createOrder calls that have not settled
  productLoads,     \* fetchProducts calls of the dashboard, not settled
  logouts,          \* logoutApi calls that have not settled
  serverOrders,     \* the orders GET /orders returns to this customer
  activeTab,        \* CustomerDashboard useState, order history
  orders,
  ordersLoading,
  expandedOrderId,
  loads,            \* fetchOrders calls that have not settled
  mockOrders,       \* the mock data AdminOrders is built over
  adminOrders,      \* AdminOrders useState: orders, searchQuery, selectedOrder
  searchQuery,
  selectedOrder,
  exported,         \* the text of the last file handed to the browser
  statusCalls,      \* updateOrderStatus calls that have not settled
  users,            \* AdminCustomers useState: users
  customersLoading, \* AdminCustomers useState: loading
  customerLoads,    \* fetchCustomers calls that have not settled
  isDialogOpen,     \* AdminCustomers useState, the Add / Edit dialog
  editingUser,
  formData,
  submitting,
  shareCredentialsUser,
  customerCalls,    \* createCustomer / updateCustomer calls, not settled
  serverCustomers,  \* the customers the server holds
  productAccessUser,
  allProducts,
  selectedProductIds,
  productAccessLoading,
  productAccessSaving,
  accessCalls,      \* product access requests that have not settled
  assigned,         \* the product ids the server holds for each customer
  stats,            \* AdminDashboard useState: stats, recentOrders, loading
  recentOrders,
  statsLoading,
  statsLoads,       \* the mount effect's Promise.all, not settled
  adminProducts,    \* AdminProducts useState: products, loading, isDialogOpen,
  productsLoading,  \* editingProduct, formData, submitting
  productDialogOpen,
  editingProduct,
  productForm,
  productSubmitting,
  adminProductLoads, \* fetchProducts calls of AdminProducts, not settled
  productCalls      \* createProduct / updateProduct calls, not settled

server == <<catalog, ordersCreated>>
session == <<authenticated, hasTokens, userStored, navigating, page>>
cart == <<products, loading, selections>>
form == <<poNumber, poError, isSubmitting, lastOrderId, lastPoNumber,
          showConfirmation>>
net == <<productLoads, logouts>>
history == <<activeTab, orders, ordersLoading, expandedOrderId, loads>>
admin == <<mockOrders, adminOrders, searchQuery, selectedOrder, exported,
          statusCalls>>
customers == <<users, customersLoading, customerLoads, isDialogOpen,
              editingUser, formData, submitting, shareCredentialsUser,
              customerCalls, serverCustomers>>
dialog == <<productAccessUser, allProducts, selectedProductIds,
           productAccessLoading, productAccessSaving, accessCalls, assigned>>
access == <<customers, dialog>>
overview == <<stats, recentOrders, statsLoading, statsLoads>>
productsPage == <<adminProducts, productsLoading, productDialogOpen,
                 editingProduct, productForm, productSubmitting,
                 adminProductLoads, productCalls>>
area == <<overview, productsPage>>
views == <<serverOrders, history, admin, access, area>>
vars == <<server, session, cart, form, toast, calls, net, views>>

\* JavaScript's null, for a state that holds a string, an object or null:
\* an id is held as its characters and is never empty, a selected order is
\* held as a sequence of one order.
null == <<>>

\* The server stops creating orders after this many.
MaxOrders == 1

\* At most this many calls of the REST client are in flight, those of pages
\* that have unmounted included.
MaxRequests == 2

\* A call of the REST client can be started.
CanRequest ==
  Len(calls) + Len(productLoads) + Len(logouts) + Len(loads)
    + Len(customerLoads) + Len(customerCalls) + Len(accessCalls)
    + Len(statsLoads) + Len(adminProductLoads) + Len(productCalls)
    < MaxRequests

(***************************************************************************)
(* Catalog Selection Model                                                 *)
(***************************************************************************)
\* JavaScript's undefined where a colour is read: no colour has this name.
\* The catalogue table shows no colour for it.
undefined == <<"undefined">>

\* The selection made for a product that has none: its first colour, which
\* is undefined for a product saved with no colour.
DefaultSelection(product) ==
  [productId |-> product.id, productName |-> product.name,
   styleNumber |-> product.styleNumber,
   selectedColor |-> IF product.colors = <<>>
                     THEN undefined
                     ELSE product.colors[1],
   quantities |-> <<>>]

\* handleColorChange(product, color): the new selections.
ColorChanged(sels, product, color) ==
  ObjSet(sels, product.id,
         [productId |-> product.id, productName |-> product.name,
          styleNumber |-> product.styleNumber, selectedColor |-> color,
          quantities |-> IF ObjHas(sels, product.id)
                         THEN ObjGet(sels, product.id).quantities
                         ELSE <<>>])

\* handleQuantityChange(product, size, value): the new selections.  The
\* handler runs in the render that shows `sels`, so the `selections` of its
\* closure and the `prev` of its updater are the same object.
QuantityChanged(sels, product, size, value) ==
  LET qty == ParseQty(value)
      currentSelection == IF ObjHas(sels, product.id)
                          THEN ObjGet(sels, product.id)
                          ELSE DefaultSelection(product)
  IN  ObjSet(sels, product.id,
             [currentSelection EXCEPT
                !.quantities = ObjSet(@, size, qty)])

KeepsEntry_NonZero(qty) == qty # 0

KeepsEntry_NonNegative(qty) == qty >= 0

\* Items of one selection, one per size whose quantity is > 0.
KeepsEntry(qty) == qty > 0

SelectionItems(selection, prods) ==
  LET found == {i \in 1..Len(prods) : prods[i].id = selection.productId}
      styleNumber ==
        IF selection.styleNumber # "" THEN selection.styleNumber
        ELSE IF found # {}
             THEN prods[CHOOSE i \in found : \A j \in found : i <= j].styleNumber
             ELSE ""
      kept == SelectSeq(selection.quantities, LAMBDA e : KeepsEntry(e.val))
  IN  [i \in 1..Len(kept) |->
         [productId |-> selection.productId,
          productName |-> selection.productName,
          styleNumber |-> styleNumber,
          color |-> selection.selectedColor,
          size |-> kept[i].key,
          quantity |-> kept[i].val]]

RECURSIVE getOrderItems(_, _)
getOrderItems(sels, prods) ==
  IF sels = <<>> THEN <<>>
  ELSE SelectionItems(Head(sels).val, prods) \o getOrderItems(Tail(sels), prods)

RECURSIVE SumQuantity(_)
\* items.reduce((sum, item) => sum + item.quantity, 0)
SumQuantity(items) ==
  IF items = <<>> THEN 0 ELSE Head(items).quantity + SumQuantity(Tail(items))

totalItems == SumQuantity(getOrderItems(selections, products))

\* The dashboard is rendered for a logged-in customer once the products
\* have settled; the confirmation dialog is modal, nothing behind it can be
\* operated.
DashboardShown ==
  authenticated /\ page = "customer" /\ ~loading /\ ~showConfirmation

\* The catalogue table is rendered on the catalog tab; the order summary
\* panel (PO field, remove, clear, submit) sits in the same block and is
\* rendered only while totalItems > 0.
CatalogShown == DashboardShown /\ activeTab = "catalog"

SummaryShown == CatalogShown /\ totalItems > 0

\* The calls of a component that unmounts stay in flight.
Orphaned(seq) == [i \in 1..Len(seq) |-> [seq[i] EXCEPT !.live = FALSE]]

\* CustomerDashboard's useState initial values, primed: the state of the
\* dashboard that mounts next.
DashboardReset ==
  /\ products' = <<>>
  /\ loading' = TRUE
  /\ selections' = <<>>
  /\ poNumber' = <<>>
  /\ poError' = ""
  /\ isSubmitting' = FALSE
  /\ lastOrderId' = <<>>
  /\ lastPoNumber' = <<>>
  /\ showConfirmation' = FALSE
  /\ activeTab' = "catalog"
  /\ orders' = <<>>
  /\ ordersLoading' = FALSE
  /\ expandedOrderId' = null

\* The order summary's render calls getColorStyle(selection.selectedColor)
\* for every selection that holds a quantity > 0, and color.toLowerCase()
\* throws for undefined.
SummaryThrows(sels) ==
  \E i \in 1..Len(sels) :
    /\ sels[i].val.selectedColor = undefined
    /\ \E q \in 1..Len(sels[i].val.quantities) :
         sels[i].val.quantities[q].val > 0

\* setSelections(next) of a quantity handler and the render that follows.
\* A render that throws unmounts the application: nothing is left on
\* screen, the calls of the dashboard stay in flight.
QuantitiesSet(next) ==
  IF SummaryThrows(next)
  THEN /\ page' = "crashed"
       /\ DashboardReset
       /\ calls' = Orphaned(calls)
       /\ productLoads' = Orphaned(productLoads)
       /\ loads' = Orphaned(loads)
       /\ UNCHANGED <<server, authenticated, hasTokens, userStored,
                      navigating, toast, logouts, serverOrders, admin,
                      access, area>>
  ELSE /\ selections' = next
       /\ UNCHANGED <<views, server, session, products, loading, form,
                      toast, calls, net>>

handleColorChange ==
  /\ CatalogShown
  /\ \E i \in 1..Len(products) : \E c \in 1..Len(products[i].colors) :
       selections' = ColorChanged(selections, products[i], products[i].colors[c])
  /\ UNCHANGED <<views, server, session, products, loading, form, toast, calls, net>>

handleQuantityChange ==
  /\ CatalogShown
  /\ \E i \in 1..Len(products) : \E s \in 1..Len(products[i].sizes) :
       \E value \in RawInputs :
         QuantitiesSet(QuantityChanged(selections, products[i],
                                       products[i].sizes[s], value))

handleQuantityChangeForSizeInNumber ==
  /\ CatalogShown
  /\ \E i \in 1..Len(products) : \E s \in 1..Len(products[i].sizesInNumber) :
       \E value \in RawInputs :
         QuantitiesSet(QuantityChanged(selections, products[i],
                         NumToChars(products[i].sizesInNumber[s]), value))

\* The remove button of a selection listed in the summary.
handleRemoveProduct ==
  /\ SummaryShown
  /\ \E i \in 1..Len(selections) :
       /\ \E j \in 1..Len(selections[i].val.quantities) :
            selections[i].val.quantities[j].val > 0
       /\ selections' = ObjDelete(selections, selections[i].val.productId)
  /\ UNCHANGED <<views, server, session, products, loading, form, toast, calls, net>>

\* The Clear All button: setSelections({}).
ClearAll ==
  /\ SummaryShown
  /\ selections' = <<>>
  /\ UNCHANGED <<views, server, session, products, loading, form, toast, calls, net>>

PoNumberChange_KeepsError ==
  /\ SummaryShown
  /\ \E value \in PoInputs :
       /\ value # poNumber
       /\ poNumber' = value
  /\ UNCHANGED <<views, server, session, cart, poError, isSubmitting,
                 lastOrderId, lastPoNumber, showConfirmation, toast, calls, net>>

\* The PO number input's onChange.
PoNumberChange ==
  /\ SummaryShown
  /\ \E value \in PoInputs :
       /\ value # poNumber
       /\ poNumber' = value
  /\ poError' = ""
  /\ UNCHANGED <<views, server, session, cart, isSubmitting, lastOrderId,
                 lastPoNumber, showConfirmation, toast, calls, net>>

(***************************************************************************)
(* REST client: createOrder over apiFetch                                  *)
(***************************************************************************)
\* The JSON body createOrder posts.
CreateOrderBody(data) ==
  [poNumber |-> data.poNumber,
   totalItems |-> SumQuantity(data.items),
   items |-> data.items]

\* A createOrder call that has not settled: the request apiFetch has in
\* flight (POST /orders, or POST /auth/refresh after a 401), apiFetch's
\* `retry` argument, how many POST /orders requests it has sent, the
\* poNumber of the handleSubmitOrder closure that awaits it, and whether the
\* dashboard that started it is still mounted: the state setters of an
\* unmounted component do nothing.
NewCall(data, closurePo) ==
  [phase |-> "post", retry |-> TRUE, posts |-> 1, live |-> TRUE,
   body |-> CreateOrderBody(data), poNumber |-> closurePo]

Reissued_KeepsRetry(call) ==
  [call EXCEPT !.phase = "post", !.posts = @ + 1]

\* apiFetch(path, options, false) after a successful refresh.
Reissued(call) ==
  [call EXCEPT !.phase = "post", !.retry = FALSE, !.posts = @ + 1]

RemoveAt(seq, i) == SubSeq(seq, 1, i - 1) \o SubSeq(seq, i + 1, Len(seq))

SessionExpiredMessage == "Session expired"

\* clearTokens(); window.location.href = '/' of apiFetch, before it throws
\* ApiError(401, 'Session expired'): the tokens are gone and the browser
\* starts to navigate.  The document on screen keeps running, with the
\* caller's catch and finally, until the new document is committed.
SessionExpired ==
  /\ hasTokens' = FALSE
  /\ navigating' = TRUE
  /\ UNCHANGED <<authenticated, userStored, page>>

(***************************************************************************)
(* Order Submission Workflow                                               *)
(***************************************************************************)
NoItemsMessage == "Please add quantities to at least one product"
PoRequiredMessage == "PO Number is required"
SuccessMessage == "Order placed successfully!"
FailureMessage == "Failed to place order"

SubmitEnabled_Always == TRUE

\* The Submit button is disabled while isSubmitting.
SubmitEnabled == ~isSubmitting

SubmitRejection_PoFirst(total, po) ==
  IF Trim(po) = <<>> THEN "po"
  ELSE IF total = 0 THEN "items"
  ELSE "none"

SubmitRejection_NoPoCheck(total, po) ==
  IF total = 0 THEN "items" ELSE "none"

\* The two early returns of handleSubmitOrder.
SubmitRejection(total, po) ==
  IF total = 0 THEN "items"
  ELSE IF Trim(po) = <<>> THEN "po"
  ELSE "none"

\* The Submit button's onClick.  The button sits in the summary panel,
\* which is rendered only while totalItems > 0, so the handler's first
\* early return is never taken from the page.
handleSubmitOrder ==
  /\ SummaryShown
  /\ SubmitEnabled
  /\ LET rejection == SubmitRejection(totalItems, poNumber)
     IN  IF rejection = "items"
         THEN /\ toast' = NoItemsMessage
              /\ UNCHANGED <<form, calls>>
         ELSE IF rejection = "po"
         THEN /\ poError' = PoRequiredMessage
              /\ UNCHANGED <<poNumber, isSubmitting, lastOrderId, lastPoNumber,
                             showConfirmation, toast, calls>>
         ELSE /\ CanRequest
              /\ isSubmitting' = TRUE
              /\ calls' = Append(calls,
                     NewCall([poNumber |-> Trim(poNumber),
                              items |-> getOrderItems(selections, products)],
                             poNumber))
              /\ UNCHANGED <<poNumber, poError, lastOrderId, lastPoNumber,
                             showConfirmation, toast>>
  /\ UNCHANGED <<views, server, session, cart, net>>

CreateSucceeded_KeepsForm(i) ==
  /\ calls[i].phase = "post"
  /\ ordersCreated < MaxOrders
  /\ ordersCreated' = ordersCreated + 1
  /\ toast' = SuccessMessage
  /\ calls' = RemoveAt(calls, i)
  /\ IF calls[i].live
     THEN /\ lastOrderId' = NumToChars(ordersCreated + 1)
          /\ lastPoNumber' = calls[i].poNumber
          /\ selections' = <<>>
          /\ poError' = ""
          /\ showConfirmation' = TRUE
          /\ isSubmitting' = FALSE
          /\ UNCHANGED poNumber
     ELSE UNCHANGED <<selections, form>>
  /\ UNCHANGED <<views, catalog, session, products, loading, net>>

\* POST /orders answered 2xx: the server has created the order and the
\* try block of handleSubmitOrder runs to its end, then finally.
CreateSucceeded(i) ==
  /\ calls[i].phase = "post"
  /\ ordersCreated < MaxOrders
  /\ ordersCreated' = ordersCreated + 1
  /\ toast' = SuccessMessage
  /\ calls' = RemoveAt(calls, i)
  /\ IF calls[i].live
     THEN /\ lastOrderId' = NumToChars(ordersCreated + 1)
          /\ lastPoNumber' = calls[i].poNumber
          /\ selections' = <<>>
          /\ poNumber' = <<>>
          /\ poError' = ""
          /\ showConfirmation' = TRUE
          /\ isSubmitting' = FALSE
     ELSE UNCHANGED <<selections, form>>
  /\ UNCHANGED <<views, catalog, session, products, loading, net>>

\* createOrder throws: catch and finally of handleSubmitOrder.  message is
\* err.message.
CreateThrew(i, message) ==
  /\ toast' = IF message = "" THEN FailureMessage ELSE message
  /\ isSubmitting' = IF calls[i].live THEN FALSE ELSE isSubmitting
  /\ calls' = RemoveAt(calls, i)
  /\ UNCHANGED <<views, server, cart, poNumber, poError, lastOrderId,
                 lastPoNumber, showConfirmation, net>>

CreateFailed_Clears(i) ==
  /\ calls[i].phase = "post"
  /\ toast' = FailureMessage
  /\ isSubmitting' = FALSE
  /\ selections' = <<>>
  /\ poNumber' = <<>>
  /\ calls' = RemoveAt(calls, i)
  /\ UNCHANGED <<views, server, session, products, loading, poError, lastOrderId,
                 lastPoNumber, showConfirmation, net>>

CreateFailed_StaysSubmitting(i) ==
  /\ calls[i].phase = "post"
  /\ toast' = FailureMessage
  /\ calls' = RemoveAt(calls, i)
  /\ UNCHANGED <<views, server, session, cart, form, net>>

\* POST /orders failed, by a rejected fetch or a status that is not ok and
\* is not a 401 apiFetch still retries.
CreateFailed(i) ==
  /\ calls[i].phase = "post"
  /\ \E message \in {"", "Bad Request"} : CreateThrew(i, message)
  /\ UNCHANGED session

\* POST /orders answered 401 while retry is set: tryRefresh starts; with no
\* refresh token stored it returns false at once.
CreateUnauthorized(i) ==
  /\ calls[i].phase = "post"
  /\ calls[i].retry
  /\ IF hasTokens
     THEN /\ calls' = [calls EXCEPT ![i].phase = "refresh"]
          /\ UNCHANGED <<views, server, session, cart, form, toast, net>>
     ELSE /\ SessionExpired
          /\ CreateThrew(i, SessionExpiredMessage)

\* POST /auth/refresh answered 2xx: setTokens, then the request is sent
\* again with retry = false.
RefreshSucceeded(i) ==
  /\ calls[i].phase = "refresh"
  /\ hasTokens' = TRUE
  /\ calls' = [calls EXCEPT ![i] = Reissued(calls[i])]
  /\ UNCHANGED <<views, server, authenticated, userStored, navigating, page,
                 cart, form, toast, net>>

\* POST /auth/refresh failed: tryRefresh returns false.
RefreshFailed(i) ==
  /\ calls[i].phase = "refresh"
  /\ SessionExpired
  /\ CreateThrew(i, SessionExpiredMessage)

CreateResponse ==
  \E i \in 1..Len(calls) :
    \/ CreateSucceeded(i)
    \/ CreateFailed(i)
    \/ CreateUnauthorized(i)
    \/ RefreshSucceeded(i)
    \/ RefreshFailed(i)

\* The dashboard's confirmation dialog is on screen.
ConfirmationShown ==
  authenticated /\ page = "customer" /\ ~loading /\ showConfirmation

\* Dismissing the confirmation dialog, or its Continue Shopping button.
CloseConfirmation ==
  /\ ConfirmationShown
  /\ showConfirmation' = FALSE
  /\ UNCHANGED <<views, server, session, cart, poNumber, poError, isSubmitting,
                 lastOrderId, lastPoNumber, toast, calls, net>>

(***************************************************************************)
(* Catalogue load: fetchProducts over apiFetch, the mount effect           *)
(***************************************************************************)
ProductsFailedMessage == "Failed to load products"

\* The fetchProducts call of a dashboard's mount effect.
NewProductLoad == [phase |-> "get", retry |-> TRUE, live |-> TRUE]

\* GET /products answered 2xx: setProducts(data), then finally.
ProductsSucceeded(i) ==
  /\ productLoads[i].phase = "get"
  /\ IF productLoads[i].live
     THEN products' = catalog /\ loading' = FALSE
     ELSE UNCHANGED <<products, loading>>
  /\ productLoads' = RemoveAt(productLoads, i)
  /\ UNCHANGED <<views, server, session, selections, form, toast, calls,
                 logouts>>

\* fetchProducts throws: catch and finally of the mount effect.
ProductsThrew(i) ==
  /\ toast' = ProductsFailedMessage
  /\ loading' = IF productLoads[i].live THEN FALSE ELSE loading
  /\ productLoads' = RemoveAt(productLoads, i)
  /\ UNCHANGED <<views, server, products, selections, form, calls, logouts>>

\* GET /products failed, by a rejected fetch or a status that is not ok and
\* is not a 401 apiFetch still retries.
ProductsFailed(i) ==
  /\ productLoads[i].phase = "get"
  /\ ProductsThrew(i)
  /\ UNCHANGED session

\* GET /products answered 401 while retry is set.
ProductsUnauthorized(i) ==
  /\ productLoads[i].phase = "get"
  /\ productLoads[i].retry
  /\ IF hasTokens
     THEN /\ productLoads' = [productLoads EXCEPT ![i].phase = "refresh"]
          /\ UNCHANGED <<views, server, session, cart, form, toast, calls,
                         logouts>>
     ELSE /\ SessionExpired
          /\ ProductsThrew(i)

\* POST /auth/refresh answered 2xx: setTokens, then GET /products is sent
\* again with retry = false.
ProductsRefreshSucceeded(i) ==
  /\ productLoads[i].phase = "refresh"
  /\ hasTokens' = TRUE
  /\ productLoads' = [productLoads EXCEPT ![i].phase = "get",
                                          ![i].retry = FALSE]
  /\ UNCHANGED <<views, server, authenticated, userStored, navigating, page,
                 cart, form, toast, calls, logouts>>

\* POST /auth/refresh failed: tryRefresh returns false.
ProductsRefreshFailed(i) ==
  /\ productLoads[i].phase = "refresh"
  /\ SessionExpired
  /\ ProductsThrew(i)

\* The mount effect's fetchProducts moves on.
LoadProducts ==
  \E i \in 1..Len(productLoads) :
    \/ ProductsSucceeded(i)
    \/ ProductsFailed(i)
    \/ ProductsUnauthorized(i)
    \/ ProductsRefreshSucceeded(i)
    \/ ProductsRefreshFailed(i)

(***************************************************************************)
(* Order history: fetchOrders over apiFetch, loadOrders, toggleOrderExpand *)
(***************************************************************************)
\* An Order, with the fields this model reads.  createdAt is a calendar
\* day; free text is held one character per element.
Order(id, customerName, po, total, status, createdAt) ==
  [id |-> id, customerId |-> customerName, customerName |-> customerName,
   customerEmail |-> customerName \o <<"@">>, poNumber |-> po,
   items |-> <<[productId |-> P1, color |-> Navy, size |-> <<"M">>,
                quantity |-> total]>>,
   totalItems |-> total, status |-> status, createdAt |-> createdAt]

Jan1 == [year |-> 2024, month |-> 1, day |-> 1]
Feb1 == [year |-> 2024, month |-> 2, day |-> 1]
Mar1 == [year |-> 2024, month |-> 3, day |-> 1]

\* The days on which the server dates a new order.
OrderDates == {Jan1, Feb1, Mar1}

\* Date.prototype.getTime at the granularity of a day: a number that grows
\* with the calendar day.
getTime(date) == (date.year * 12 + date.month) * 31 + date.day

\* The server holds at most this many orders of the customer.
MaxServerOrders == 3

\* At most this many fetchOrders calls are in flight.
MaxLoads == 2

\* The n-th order the server created for this customer.
ServerOrder(n, createdAt) ==
  Order(NumToChars(n), <<"A">>, <<"P", "O">>, 1, "pending", createdAt)

\* Candidates for what the server holds: order n is dated on any of the
\* days, so the orders come in every order of their dates.
ServerOrderLists ==
  UNION { { [n \in 1..len |-> ServerOrder(n, dates[n])] :
              dates \in [1..len -> OrderDates] } :
          len \in 0..MaxServerOrders }

SortCompare_Ascending(a, b) == getTime(a.createdAt) - getTime(b.createdAt)

\* The comparator loadOrders hands to sort.
SortCompare(a, b) == getTime(b.createdAt) - getTime(a.createdAt)

\* One step of a stable sort: x goes in front of the first element the
\* comparator puts after it, behind everything else.
SortInsert(sorted, x) ==
  LET after == { i \in 1..Len(sorted) : SortCompare(sorted[i], x) > 0 }
      pos == IF after = {} THEN Len(sorted) + 1
             ELSE CHOOSE i \in after : \A j \in after : i <= j
  IN  SubSeq(sorted, 1, pos - 1) \o <<x>> \o SubSeq(sorted, pos, Len(sorted))

\* Array.prototype.sort with SortCompare; the sort is stable.
RECURSIVE ArraySort(_)
ArraySort(arr) ==
  IF arr = <<>> THEN <<>>
  ELSE SortInsert(ArraySort(SubSeq(arr, 1, Len(arr) - 1)), arr[Len(arr)])

LoadFailedMessage == "Failed to load order history"

\* GET /orders as apiFetch first sends it; the server answers with the
\* orders it holds when the request is sent.  held is no state of the
\* program: it keeps, for the properties, the list stored when loadOrders
\* was called.
NewLoad ==
  [phase |-> "get", retry |-> TRUE, live |-> TRUE, data |-> serverOrders,
   held |-> orders]

\* The tabs and the order history are rendered with the dashboard.
TabsShown == DashboardShown

\* The order rows are rendered on the orders tab while no load is shown.
OrderRowsShown == TabsShown /\ activeTab = "orders" /\ ~ordersLoading

\* loadOrders up to its await.
LoadStarted ==
  /\ Len(loads) < MaxLoads
  /\ CanRequest
  /\ ordersLoading' = TRUE
  /\ loads' = Append(loads, NewLoad)

handleTabChange ==
  /\ TabsShown
  /\ \E tab \in {"catalog", "orders"} :
       /\ activeTab' = tab
       /\ IF tab = "orders"
          THEN LoadStarted
          ELSE UNCHANGED <<ordersLoading, loads>>
  /\ UNCHANGED <<server, session, cart, form, toast, calls, net, serverOrders,
                 orders, expandedOrderId, admin, access, area>>

\* The Refresh button of the orders tab, disabled while ordersLoading.
RefreshOrders ==
  /\ TabsShown
  /\ activeTab = "orders"
  /\ ~ordersLoading
  /\ LoadStarted
  /\ UNCHANGED <<server, session, cart, form, toast, calls, net, serverOrders,
                 activeTab, orders, expandedOrderId, admin, access, area>>

ToggledExpand_Sticky(prev, orderId) == IF prev = null THEN orderId ELSE null

\* The updater toggleOrderExpand hands to setExpandedOrderId.
ToggledExpand(prev, orderId) == IF prev = orderId THEN null ELSE orderId

\* A click on the row of the order with this id.
toggleOrderExpand(orderId) ==
  /\ OrderRowsShown
  /\ \E i \in 1..Len(orders) : orders[i].id = orderId
  /\ expandedOrderId' = ToggledExpand(expandedOrderId, orderId)
  /\ UNCHANGED <<server, session, cart, form, toast, calls, net, serverOrders,
                 activeTab, orders, ordersLoading, loads, admin, access,
                 area>>

ToggleExpand == \E i \in 1..Len(orders) : toggleOrderExpand(orders[i].id)

\* The Place Your First Order button of the empty order history.
PlaceFirstOrder ==
  /\ OrderRowsShown
  /\ orders = <<>>
  /\ activeTab' = "catalog"
  /\ UNCHANGED <<server, session, cart, form, toast, calls, net, serverOrders,
                 orders, ordersLoading, expandedOrderId, loads, admin, access,
                 area>>

\* The View Order History button of the confirmation dialog:
\* setShowConfirmation(false); handleTabChange('orders').
ViewOrderHistory ==
  /\ ConfirmationShown
  /\ showConfirmation' = FALSE
  /\ activeTab' = "orders"
  /\ LoadStarted
  /\ UNCHANGED <<server, session, cart, poNumber, poError, isSubmitting,
                 lastOrderId, lastPoNumber, toast, calls, net, serverOrders,
                 orders, expandedOrderId, admin, access, area>>

\* GET /orders answered 2xx: setOrders(data.sort(...)), then finally.
LoadSucceeded(i) ==
  /\ loads[i].phase = "get"
  /\ IF loads[i].live
     THEN orders' = ArraySort(loads[i].data) /\ ordersLoading' = FALSE
     ELSE UNCHANGED <<orders, ordersLoading>>
  /\ loads' = RemoveAt(loads, i)
  /\ UNCHANGED <<server, session, cart, form, toast, calls, net, serverOrders,
                 activeTab, expandedOrderId, admin, access, area>>

\* fetchOrders throws: catch and finally of loadOrders.
LoadThrew(i) ==
  /\ toast' = LoadFailedMessage
  /\ ordersLoading' = IF loads[i].live THEN FALSE ELSE ordersLoading
  /\ loads' = RemoveAt(loads, i)
  /\ UNCHANGED <<server, cart, form, calls, net, serverOrders, activeTab,
                 orders, expandedOrderId, admin, access, area>>

\* GET /orders failed, by a rejected fetch or a status that is not ok and
\* is not a 401 apiFetch still retries.
LoadFailed(i) ==
  /\ loads[i].phase = "get"
  /\ LoadThrew(i)
  /\ UNCHANGED session

\* GET /orders answered 401 while retry is set: tryRefresh starts; with no
\* refresh token stored it returns false at once.
LoadUnauthorized(i) ==
  /\ loads[i].phase = "get"
  /\ loads[i].retry
  /\ IF hasTokens
     THEN /\ loads' = [loads EXCEPT ![i].phase = "refresh", ![i].data = <<>>]
          /\ UNCHANGED <<server, session, cart, form, toast, calls, net,
                         serverOrders, activeTab, orders, ordersLoading,
                         expandedOrderId, admin, access, area>>
     ELSE /\ SessionExpired
          /\ LoadThrew(i)

\* POST /auth/refresh answered 2xx: setTokens, then GET /orders is sent
\* again with retry = false.
LoadRefreshSucceeded(i) ==
  /\ loads[i].phase = "refresh"
  /\ hasTokens' = TRUE
  /\ loads' = [loads EXCEPT ![i].phase = "get", ![i].retry = FALSE,
                            ![i].data = serverOrders]
  /\ UNCHANGED <<server, authenticated, userStored, navigating, page, cart,
                 form, toast, calls, net, serverOrders, activeTab, orders,
                 ordersLoading, expandedOrderId, admin, access, area>>

\* POST /auth/refresh failed: tryRefresh returns false.
LoadRefreshFailed(i) ==
  /\ loads[i].phase = "refresh"
  /\ SessionExpired
  /\ LoadThrew(i)

LoadResponse ==
  \E i \in 1..Len(loads) :
    \/ LoadSucceeded(i)
    \/ LoadFailed(i)
    \/ LoadUnauthorized(i)
    \/ LoadRefreshSucceeded(i)
    \/ LoadRefreshFailed(i)

(***************************************************************************)
(* Admin orders: handleStatusChange, the detail dialog, exportToExcel      *)
(***************************************************************************)
statusOptions == <<"pending", "confirmed", "processing", "shipped", "delivered">>

\* The mock data holds at most this many orders.
MaxMockOrders == 2

\* Customer names of the mock data.
MockNames == { <<"A">>, <<"B", ",", "C">> }

MockDates == <<Mar1, Jan1, Feb1>>

\* Candidates for the n-th order of mockOrders.
MockOrdersAt(n) ==
  { Order(NumToChars(n), name, <<"P", "O", "-">> \o NumToChars(n), 5 * n,
          statusOptions[s], MockDates[((n - 1) % Len(MockDates)) + 1]) :
      name \in MockNames, s \in 1..Len(statusOptions) }

\* Candidates for mockOrders: ids are distinct.
MockOrderLists ==
  UNION { { list \in [1..len -> UNION { MockOrdersAt(n) : n \in 1..len }] :
              \A n \in 1..len : list[n] \in MockOrdersAt(n) } :
          len \in 0..MaxMockOrders }

\* What the admin types into the search box.
SearchInputs == { <<>>, <<"a">>, <<"2">> }

UpperCase == <<"A", "B", "C", "O", "P">>
LowerCase == <<"a", "b", "c", "o", "p">>

\* String.prototype.toLowerCase over the letters that occur.
toLowerCase(s) ==
  [i \in 1..Len(s) |->
     IF \E k \in 1..Len(UpperCase) : UpperCase[k] = s[i]
     THEN LowerCase[CHOOSE k \in 1..Len(UpperCase) : UpperCase[k] = s[i]]
     ELSE s[i]]

\* String.prototype.includes
includes(s, q) ==
  \E i \in 0..(Len(s) - Len(q)) : SubSeq(s, i + 1, i + Len(q)) = q

MatchesSearch(order, query) ==
  \/ includes(toLowerCase(order.customerName), toLowerCase(query))
  \/ includes(toLowerCase(order.poNumber), toLowerCase(query))
  \/ includes(toLowerCase(order.id), toLowerCase(query))

filteredOrders ==
  SelectSeq(adminOrders, LAMBDA order : MatchesSearch(order, searchQuery))

StatusUpdatedMessage == "Order status updated successfully"
ExportedMessage == "Orders exported successfully"

\* AdminLayout renders the page for a logged-in admin.
AdminOrdersShown == authenticated /\ page = "adminOrders"

\* The page behind the detail dialog can be operated only while it is shut.
AdminPageShown == AdminOrdersShown /\ selectedOrder = null

\* The detail dialog is open.
DetailShown == AdminOrdersShown /\ selectedOrder # null

\* The search box's onChange.
setSearchQuery ==
  /\ AdminPageShown
  /\ \E value \in SearchInputs :
       /\ value # searchQuery
       /\ searchQuery' = value
  /\ UNCHANGED <<server, session, cart, form, toast, calls, net, serverOrders,
                 history, access, adminOrders, selectedOrder, exported, statusCalls,
                 mockOrders, area>>

\* The eye button of a row: setSelectedOrder(order).
OpenDetail ==
  /\ AdminPageShown
  /\ \E i \in 1..Len(filteredOrders) : selectedOrder' = <<filteredOrders[i]>>
  /\ UNCHANGED <<server, session, cart, form, toast, calls, net, serverOrders,
                 history, access, adminOrders, searchQuery, exported, statusCalls,
                 mockOrders, area>>

\* The dialog's onOpenChange: setSelectedOrder(null).
CloseDetail ==
  /\ DetailShown
  /\ selectedOrder' = null
  /\ UNCHANGED <<server, session, cart, form, toast, calls, net, serverOrders,
                 history, access, adminOrders, searchQuery, exported, statusCalls,
                 mockOrders, area>>

IndexOfStatus(status) ==
  CHOOSE k \in 1..Len(statusOptions) : statusOptions[k] = status

WithStatus_ForwardOnly(order, newStatus) ==
  IF IndexOfStatus(newStatus) > IndexOfStatus(order.status)
  THEN [order EXCEPT !.status = newStatus]
  ELSE order

\* { ...order, status: newStatus }
WithStatus(order, newStatus) == [order EXCEPT !.status = newStatus]

StatusChangedList_All(list, orderId, newStatus) ==
  [i \in 1..Len(list) |-> WithStatus(list[i], newStatus)]

\* orders.map(...) of handleStatusChange
StatusChangedList(list, orderId, newStatus) ==
  [i \in 1..Len(list) |->
     IF list[i].id = orderId THEN WithStatus(list[i], newStatus) ELSE list[i]]

StatusChangedDetail_ListOnly(selected, orderId, newStatus) == selected

\* The selectedOrder branch of handleStatusChange.
StatusChangedDetail(selected, orderId, newStatus) ==
  IF selected # null /\ selected[1].id = orderId
  THEN <<WithStatus(selected[1], newStatus)>>
  ELSE selected

handleStatusChange(orderId, newStatus) ==
  /\ adminOrders' = StatusChangedList(adminOrders, orderId, newStatus)
  /\ selectedOrder' = StatusChangedDetail(selectedOrder, orderId, newStatus)
  /\ toast' = StatusUpdatedMessage
  /\ UNCHANGED <<server, session, cart, form, calls, net, serverOrders, history, access,
                 searchQuery, exported, statusCalls,
                 mockOrders, area>>

\* The status select of a row of the list.
RowStatusChange ==
  /\ AdminPageShown
  /\ \E i \in 1..Len(filteredOrders) : \E s \in 1..Len(statusOptions) :
       handleStatusChange(filteredOrders[i].id, statusOptions[s])

\* The status select of the detail dialog.
DetailStatusChange ==
  /\ DetailShown
  /\ \E s \in 1..Len(statusOptions) :
       handleStatusChange(selectedOrder[1].id, statusOptions[s])

\* Array.prototype.join over texts.
RECURSIVE Join(_, _)
Join(texts, sep) ==
  IF texts = <<>> THEN <<>>
  ELSE IF Len(texts) = 1 THEN texts[1]
  ELSE texts[1] \o sep \o Join(Tail(texts), sep)

\* A one- or two-digit number as date-fns writes MM and dd.
TwoDigits(n) == IF n < 10 THEN <<"0">> \o NumToChars(n) ELSE NumToChars(n)

\* format(date, 'yyyy-MM-dd')
FormatDate(date) ==
  NumToChars(date.year) \o <<"-">> \o TwoDigits(date.month) \o <<"-">>
    \o TwoDigits(date.day)

CsvHeaders ==
  << <<"Order ID">>, <<"Customer">>, <<"PO Number">>, <<"Items">>,
     <<"Status">>, <<"Date">> >>

CsvRow(order) ==
  << order.id, order.customerName, order.poNumber,
     NumToChars(order.totalItems), <<order.status>>,
     FormatDate(order.createdAt) >>

CsvContent(list) ==
  Join(<<Join(CsvHeaders, <<",">>)>>
         \o [i \in 1..Len(list) |-> Join(CsvRow(list[i]), <<",">>)],
       <<"\n">>)

\* The Export to Excel button.
exportToExcel ==
  /\ AdminPageShown
  /\ exported' = CsvContent(filteredOrders)
  /\ toast' = ExportedMessage
  /\ UNCHANGED <<server, session, cart, form, calls, net, serverOrders, history, access,
                 adminOrders, searchQuery, selectedOrder, statusCalls,
                 mockOrders, area>>

(***************************************************************************)
(* Admin customers: loadCustomers, the Add / Edit form, share credentials  *)
(***************************************************************************)
U1 == <<"U", "1">>
U2 == <<"U", "2">>
U3 == <<"U", "3">>

\* The customers the server holds at first, with the fields this model
\* reads.
CustomerList == << [id |-> U1, name |-> "Ann"], [id |-> U2, name |-> "Bob"] >>

\* The server holds at most this many customers.
MaxCustomers == 3

\* The id the server gives the n-th customer.
CustomerId(n) == <<"U">> \o NumToChars(n)

CustomerIds == { CustomerId(n) : n \in 1..MaxCustomers }

\* What the admin can leave in the Full Name field, which is `required`.
NameInputs == { "", "Cy" }

\* What generatePassword and openAddDialog draw with Math.random.
GeneratedPasswords == { "pw1", "pw2" }

DefaultPassword == "customer123"

CustomersFailedMessage == "Failed to load customers"
CustomerUpdatedMessage == "Customer updated successfully"
CustomerCreatedMessage == "Customer account created successfully"
CustomerSaveFailedMessage == "Failed to save customer"
PasswordGeneratedMessage == "New password generated"

\* `${field} copied to clipboard` for the fields the share dialog copies.
CopiedMessages ==
  { "Email copied to clipboard", "Password copied to clipboard",
    "Credentials copied to clipboard" }

\* The useState initial value of formData.
EmptyForm == [name |-> "", password |-> ""]

\* The fetchCustomers call of loadCustomers.
NewCustomerLoad ==
  [phase |-> "get", retry |-> TRUE, live |-> TRUE, data |-> serverCustomers]

\* AdminLayout renders the page for a logged-in admin.
CustomersPageShown == authenticated /\ page = "adminCustomers"

\* The Add / Edit dialog, the product access dialog and the share
\* credentials dialog are modal.  The share dialog can open over the product
\* access dialog and is then the one that can be operated.
ShareShown == CustomersPageShown /\ shareCredentialsUser # null

FormShown == CustomersPageShown /\ isDialogOpen /\ shareCredentialsUser = null

AccessDialogShown ==
  CustomersPageShown /\ productAccessUser # null /\ shareCredentialsUser = null

\* The customer rows and the Add Customer button are rendered once
\* loadCustomers has settled, and can be operated while no dialog is open.
CustomerRowsShown ==
  /\ CustomersPageShown
  /\ ~customersLoading
  /\ productAccessUser = null
  /\ ~isDialogOpen
  /\ shareCredentialsUser = null

\* GET /customers answered 2xx: setUsers(data), then finally.
CustomersSucceeded(i) ==
  /\ customerLoads[i].phase = "get"
  /\ IF customerLoads[i].live
     THEN users' = customerLoads[i].data /\ customersLoading' = FALSE
     ELSE UNCHANGED <<users, customersLoading>>
  /\ customerLoads' = RemoveAt(customerLoads, i)
  /\ UNCHANGED <<server, session, cart, form, toast, calls, net, serverOrders,
                 history, admin, isDialogOpen, editingUser, formData,
                 submitting, shareCredentialsUser, customerCalls,
                 serverCustomers, dialog, area>>

\* fetchCustomers throws: catch and finally of loadCustomers.
CustomersThrew(i) ==
  /\ toast' = CustomersFailedMessage
  /\ customersLoading' = IF customerLoads[i].live THEN FALSE
                         ELSE customersLoading
  /\ customerLoads' = RemoveAt(customerLoads, i)
  /\ UNCHANGED <<server, cart, form, calls, net, serverOrders, history, admin,
                 users, isDialogOpen, editingUser, formData, submitting,
                 shareCredentialsUser, customerCalls, serverCustomers, dialog,
                 area>>

\* GET /customers failed, by a rejected fetch or a status that is not ok
\* and is not a 401 apiFetch still retries.
CustomersFailed(i) ==
  /\ customerLoads[i].phase = "get"
  /\ CustomersThrew(i)
  /\ UNCHANGED session

\* GET /customers answered 401 while retry is set.
CustomersUnauthorized(i) ==
  /\ customerLoads[i].phase = "get"
  /\ customerLoads[i].retry
  /\ IF hasTokens
     THEN /\ customerLoads' = [customerLoads EXCEPT ![i].phase = "refresh",
                                                    ![i].data = <<>>]
          /\ UNCHANGED <<server, session, cart, form, toast, calls, net,
                         serverOrders, history, admin, users,
                         customersLoading, isDialogOpen, editingUser,
                         formData, submitting, shareCredentialsUser,
                         customerCalls, serverCustomers, dialog, area>>
     ELSE /\ SessionExpired
          /\ CustomersThrew(i)

\* POST /auth/refresh answered 2xx: setTokens, then GET /customers is sent
\* again with retry = false.
CustomersRefreshSucceeded(i) ==
  /\ customerLoads[i].phase = "refresh"
  /\ hasTokens' = TRUE
  /\ customerLoads' = [customerLoads EXCEPT ![i].phase = "get",
                                            ![i].retry = FALSE,
                                            ![i].data = serverCustomers]
  /\ UNCHANGED <<server, authenticated, userStored, navigating, page, cart,
                 form, toast, calls, net, serverOrders, history, admin, users,
                 customersLoading, isDialogOpen, editingUser, formData,
                 submitting, shareCredentialsUser, customerCalls,
                 serverCustomers, dialog, area>>

\* POST /auth/refresh failed: tryRefresh returns false.
CustomersRefreshFailed(i) ==
  /\ customerLoads[i].phase = "refresh"
  /\ SessionExpired
  /\ CustomersThrew(i)

\* The fetchCustomers of loadCustomers moves on.
LoadCustomers ==
  \E i \in 1..Len(customerLoads) :
    \/ CustomersSucceeded(i)
    \/ CustomersFailed(i)
    \/ CustomersUnauthorized(i)
    \/ CustomersRefreshSucceeded(i)
    \/ CustomersRefreshFailed(i)

\* The Add Customer button.
openAddDialog ==
  /\ CustomerRowsShown
  /\ editingUser' = null
  /\ \E generatedPassword \in GeneratedPasswords :
       formData' = [name |-> "", password |-> generatedPassword]
  /\ isDialogOpen' = TRUE
  /\ UNCHANGED <<server, session, cart, form, toast, calls, net, serverOrders,
                 history, admin, users, customersLoading, customerLoads,
                 submitting, shareCredentialsUser, customerCalls,
                 serverCustomers, dialog, area>>

\* The edit button of a customer row.
openEditDialog ==
  /\ CustomerRowsShown
  /\ \E u \in 1..Len(users) :
       /\ editingUser' = <<users[u]>>
       /\ formData' = [name |-> users[u].name, password |-> ""]
  /\ isDialogOpen' = TRUE
  /\ UNCHANGED <<server, session, cart, form, toast, calls, net, serverOrders,
                 history, admin, users, customersLoading, customerLoads,
                 submitting, shareCredentialsUser, customerCalls,
                 serverCustomers, dialog, area>>

\* The Full Name input's onChange.
NameChange ==
  /\ FormShown
  /\ \E value \in NameInputs :
       /\ value # formData.name
       /\ formData' = [formData EXCEPT !.name = value]
  /\ UNCHANGED <<server, session, cart, form, toast, calls, net, serverOrders,
                 history, admin, users, customersLoading, customerLoads,
                 isDialogOpen, editingUser, submitting, shareCredentialsUser,
                 customerCalls, serverCustomers, dialog, area>>

\* The Regenerate button, rendered while no user is edited.
generatePassword ==
  /\ FormShown
  /\ editingUser = null
  /\ \E newPassword \in GeneratedPasswords :
       formData' = [formData EXCEPT !.password = newPassword]
  /\ toast' = PasswordGeneratedMessage
  /\ UNCHANGED <<server, session, cart, form, calls, net, serverOrders,
                 history, admin, users, customersLoading, customerLoads,
                 isDialogOpen, editingUser, submitting, shareCredentialsUser,
                 customerCalls, serverCustomers, dialog, area>>

\* onOpenChange(false) of the Add / Edit dialog, or its Cancel button.
CloseForm ==
  /\ FormShown
  /\ isDialogOpen' = FALSE
  /\ UNCHANGED <<server, session, cart, form, toast, calls, net, serverOrders,
                 history, admin, users, customersLoading, customerLoads,
                 editingUser, formData, submitting, shareCredentialsUser,
                 customerCalls, serverCustomers, dialog, area>>

\* { ...user, password } as the share dialog holds it.
WithPassword(user, password) ==
  [id |-> user.id, name |-> user.name, password |-> password]

\* The Share Credentials button of a customer row.
handleOpenShareCredentials ==
  /\ CustomerRowsShown
  /\ \E u \in 1..Len(users) :
       shareCredentialsUser' =
         <<WithPassword(users[u], IF formData.password # ""
                                  THEN formData.password
                                  ELSE DefaultPassword)>>
  /\ UNCHANGED <<server, session, cart, form, toast, calls, net, serverOrders,
                 history, admin, users, customersLoading, customerLoads,
                 isDialogOpen, editingUser, formData, submitting,
                 customerCalls, serverCustomers, dialog, area>>

\* onOpenChange of the share dialog: setShareCredentialsUser(null).
CloseShare ==
  /\ ShareShown
  /\ shareCredentialsUser' = null
  /\ UNCHANGED <<server, session, cart, form, toast, calls, net, serverOrders,
                 history, admin, users, customersLoading, customerLoads,
                 isDialogOpen, editingUser, formData, submitting,
                 customerCalls, serverCustomers, dialog, area>>

\* A copy button of the share dialog; the copied field is not held.
copyToClipboard ==
  /\ ShareShown
  /\ toast' \in CopiedMessages
  /\ UNCHANGED <<server, session, cart, form, calls, net, serverOrders,
                 history, admin, customers, dialog, area>>

\* The updateCustomer or createCustomer call of a handleSubmit, with the
\* editingUser and the formData of its closure.
NewCustomerCall ==
  [kind |-> IF editingUser # null THEN "update" ELSE "create",
   phase |-> "send", retry |-> TRUE, live |-> TRUE,
   editingUser |-> editingUser, formData |-> formData]

\* The form's onSubmit, its button disabled while submitting: handleSubmit
\* up to its await.  The browser does not submit an empty required field.
handleSubmit ==
  /\ FormShown
  /\ ~submitting
  /\ formData.name # ""
  /\ CanRequest
  /\ submitting' = TRUE
  /\ customerCalls' = Append(customerCalls, NewCustomerCall)
  /\ UNCHANGED <<server, session, cart, form, toast, calls, net, serverOrders,
                 history, admin, users, customersLoading, customerLoads,
                 isDialogOpen, editingUser, formData, shareCredentialsUser,
                 serverCustomers, dialog, area>>

\* The customer the server answers a call with.
SavedCustomer(call) ==
  [id |-> IF call.kind = "update" THEN call.editingUser[1].id
          ELSE CustomerId(Len(serverCustomers) + 1),
   name |-> call.formData.name]

\* prev.map(u => u.id === editingUser.id ? updated : u)
Replaced(list, updated) ==
  [u \in 1..Len(list) |-> IF list[u].id = updated.id THEN updated ELSE list[u]]

\* The request is answered 2xx: the server holds the customer and the try
\* block of handleSubmit runs to its end, then finally.
CustomerSaveSucceeded(i) ==
  LET call == customerCalls[i]
      saved == SavedCustomer(call)
  IN  /\ call.phase = "send"
      /\ IF call.kind = "update"
         THEN /\ serverCustomers' = Replaced(serverCustomers, saved)
              /\ toast' = CustomerUpdatedMessage
              /\ IF call.live
                 THEN /\ users' = Replaced(users, saved)
                      /\ UNCHANGED shareCredentialsUser
                 ELSE UNCHANGED <<users, shareCredentialsUser>>
         ELSE /\ Len(serverCustomers) < MaxCustomers
              /\ serverCustomers' = Append(serverCustomers, saved)
              /\ toast' = CustomerCreatedMessage
              /\ IF call.live
                 THEN /\ users' = Append(users, saved)
                      /\ shareCredentialsUser' =
                           <<WithPassword(saved, call.formData.password)>>
                 ELSE UNCHANGED <<users, shareCredentialsUser>>
      /\ IF call.live
         THEN isDialogOpen' = FALSE /\ submitting' = FALSE
         ELSE UNCHANGED <<isDialogOpen, submitting>>
      /\ customerCalls' = RemoveAt(customerCalls, i)
      /\ UNCHANGED <<server, session, cart, form, calls, net, serverOrders,
                     history, admin, customersLoading, customerLoads,
                     editingUser, formData, dialog, area>>

\* The call throws: catch and finally of handleSubmit.  message is
\* err.message.
CustomerSaveThrew(i, message) ==
  /\ toast' = IF message = "" THEN CustomerSaveFailedMessage ELSE message
  /\ submitting' = IF customerCalls[i].live THEN FALSE ELSE submitting
  /\ customerCalls' = RemoveAt(customerCalls, i)
  /\ UNCHANGED <<server, cart, form, calls, net, serverOrders, history, admin,
                 users, customersLoading, customerLoads, isDialogOpen,
                 editingUser, formData, shareCredentialsUser, serverCustomers,
                 dialog, area>>

\* The request failed, by a rejected fetch or a status that is not ok and
\* is not a 401 apiFetch still retries.
CustomerSaveFailed(i) ==
  /\ customerCalls[i].phase = "send"
  /\ \E message \in {"", "Bad Request"} : CustomerSaveThrew(i, message)
  /\ UNCHANGED session

\* The request is answered 401 while retry is set.
CustomerSaveUnauthorized(i) ==
  /\ customerCalls[i].phase = "send"
  /\ customerCalls[i].retry
  /\ IF hasTokens
     THEN /\ customerCalls' = [customerCalls EXCEPT ![i].phase = "refresh"]
          /\ UNCHANGED <<server, session, cart, form, toast, calls, net,
                         serverOrders, history, admin, users,
                         customersLoading, customerLoads, isDialogOpen,
                         editingUser, formData, submitting,
                         shareCredentialsUser, serverCustomers, dialog, area>>
     ELSE /\ SessionExpired
          /\ CustomerSaveThrew(i, SessionExpiredMessage)

\* POST /auth/refresh answered 2xx: setTokens, then the request is sent
\* again with retry = false.
CustomerSaveRefreshSucceeded(i) ==
  /\ customerCalls[i].phase = "refresh"
  /\ hasTokens' = TRUE
  /\ customerCalls' = [customerCalls EXCEPT ![i].phase = "send",
                                            ![i].retry = FALSE]
  /\ UNCHANGED <<server, authenticated, userStored, navigating, page, cart,
                 form, toast, calls, net, serverOrders, history, admin, users,
                 customersLoading, customerLoads, isDialogOpen, editingUser,
                 formData, submitting, shareCredentialsUser, serverCustomers,
                 dialog, area>>

\* POST /auth/refresh failed: tryRefresh returns false.
CustomerSaveRefreshFailed(i) ==
  /\ customerCalls[i].phase = "refresh"
  /\ SessionExpired
  /\ CustomerSaveThrew(i, SessionExpiredMessage)

CustomerSaveResponse ==
  \E i \in 1..Len(customerCalls) :
    \/ CustomerSaveSucceeded(i)
    \/ CustomerSaveFailed(i)
    \/ CustomerSaveUnauthorized(i)
    \/ CustomerSaveRefreshSucceeded(i)
    \/ CustomerSaveRefreshFailed(i)

(***************************************************************************)
(* Admin customers: the per-customer product access dialog                 *)
(***************************************************************************)
\* Candidates for the product ids the server holds for each customer, over
\* the one-product catalogue.
AccessAssignments ==
  { a \in [CustomerIds -> SUBSET {P1}] :
      \A id \in CustomerIds :
        (\A u \in 1..Len(CustomerList) : CustomerList[u].id # id) => a[id] = {} }

NoAccess == [u \in CustomerIds |-> {}]

\* At most this many product access requests are in flight.
MaxAccessCalls == 2

AccessLoadFailedMessage == "Failed to load product access data"
AccessSaveFailedMessage == "Failed to update product access"

\* `Product access updated for ${productAccessUser.name}`
AccessUpdatedMessage(user) ==
  CASE user.name = "Ann" -> "Product access updated for Ann"
    [] user.name = "Bob" -> "Product access updated for Bob"
    [] OTHER -> "Product access updated for Cy"

\* The body of the product access dialog is rendered while it is open and
\* not loading.
AccessBodyShown == AccessDialogShown /\ ~productAccessLoading

\* Promise.all([fetchProducts(), fetchCustomerProductIds(user.id)]) of the
\* openProductAccessDialog(user) that awaits it: the request apiFetch has
\* in flight for fetchProducts with its `retry` argument, whether
\* fetchCustomerProductIds is pending, what the two resolve to, and whether
\* the Promise.all has rejected already.
NewAccessLoad(user) ==
  [kind |-> "load", user |-> user, live |-> TRUE, rejected |-> FALSE,
   phase |-> "get", retry |-> TRUE, idsPhase |-> "get",
   products |-> catalog, ids |-> assigned[user.id]]

\* setCustomerProducts(productAccessUser.id, Array.from(selectedProductIds))
\* of the handleSaveProductAccess that awaits it.
NewAccessSave(user, ids) ==
  [kind |-> "save", user |-> user, live |-> TRUE, ids |-> ids]

\* openProductAccessDialog(user) up to its await.
openProductAccessDialog(user) ==
  /\ CustomerRowsShown
  /\ Len(accessCalls) < MaxAccessCalls
  /\ CanRequest
  /\ productAccessUser' = <<user>>
  /\ productAccessLoading' = TRUE
  /\ accessCalls' = Append(accessCalls, NewAccessLoad(user))
  /\ UNCHANGED <<server, session, cart, form, toast, calls, net, serverOrders,
                 history, admin, customers, allProducts, selectedProductIds,
                 productAccessSaving, assigned, area>>

\* The Manage Product Access button of a customer row.
OpenProductAccess ==
  \E u \in 1..Len(users) : openProductAccessDialog(users[u])

\* onOpenChange(false) of the dialog, or its Cancel button.
CloseProductAccess ==
  /\ AccessDialogShown
  /\ productAccessUser' = null
  /\ UNCHANGED <<server, session, cart, form, toast, calls, net, serverOrders,
                 history, admin, customers, allProducts, selectedProductIds,
                 productAccessLoading, productAccessSaving, accessCalls,
                 assigned, area>>

\* The updater toggleProduct hands to setSelectedProductIds.
Toggled(prev, productId) ==
  IF productId \in prev THEN prev \ {productId} ELSE prev \cup {productId}

\* The checkbox of a product listed in the dialog.
toggleProduct ==
  /\ AccessBodyShown
  /\ \E p \in 1..Len(allProducts) :
       selectedProductIds' = Toggled(selectedProductIds, allProducts[p].id)
  /\ UNCHANGED <<server, session, cart, form, toast, calls, net, serverOrders,
                 history, admin, customers, productAccessUser, allProducts,
                 productAccessLoading, productAccessSaving, accessCalls,
                 assigned, area>>

\* The Select All / Deselect All button.
handleSelectAll ==
  /\ AccessBodyShown
  /\ selectedProductIds' =
       IF Cardinality(selectedProductIds) = Len(allProducts)
       THEN {}
       ELSE { allProducts[p].id : p \in 1..Len(allProducts) }
  /\ UNCHANGED <<server, session, cart, form, toast, calls, net, serverOrders,
                 history, admin, customers, productAccessUser, allProducts,
                 productAccessLoading, productAccessSaving, accessCalls,
                 assigned, area>>

\* The Save Access button, disabled while saving: handleSaveProductAccess
\* up to its await.
handleSaveProductAccess ==
  /\ AccessBodyShown
  /\ ~productAccessSaving
  /\ Len(accessCalls) < MaxAccessCalls
  /\ CanRequest
  /\ productAccessSaving' = TRUE
  /\ accessCalls' = Append(accessCalls,
                           NewAccessSave(productAccessUser[1],
                                         selectedProductIds))
  /\ UNCHANGED <<server, session, cart, form, toast, calls, net, serverOrders,
                 history, admin, customers, productAccessUser, allProducts,
                 selectedProductIds, productAccessLoading, assigned, area>>

\* A request of a load has been answered for good.
Answered(phase) == phase \in {"done", "failed"}

\* The load with one of its requests moved on: it leaves the list once both
\* requests have been answered for good.
AccessLoadMoved(i, call) ==
  accessCalls' = IF Answered(call.phase) /\ Answered(call.idsPhase)
                 THEN RemoveAt(accessCalls, i)
                 ELSE [accessCalls EXCEPT ![i] = call]

\* Promise.all resolves once both requests are answered 2xx: the try block
\* of openProductAccessDialog runs to its end, then finally.
AccessLoadAnswered(i, call) ==
  /\ IF call.phase = "done" /\ call.idsPhase = "done" /\ call.live
     THEN /\ allProducts' = call.products
          /\ selectedProductIds' = call.ids
          /\ productAccessLoading' = FALSE
     ELSE UNCHANGED <<allProducts, selectedProductIds, productAccessLoading>>
  /\ AccessLoadMoved(i, call)
  /\ UNCHANGED <<server, session, cart, form, toast, calls, net, serverOrders,
                 history, admin, customers, productAccessUser,
                 productAccessSaving, assigned, area>>

\* GET /products of a load answered 2xx.
AccessProductsSucceeded(i) ==
  /\ accessCalls[i].kind = "load"
  /\ accessCalls[i].phase = "get"
  /\ AccessLoadAnswered(i, [accessCalls[i] EXCEPT !.phase = "done"])

\* fetchCustomerProductIds of a load resolves.
AccessIdsSucceeded(i) ==
  /\ accessCalls[i].kind = "load"
  /\ accessCalls[i].idsPhase = "get"
  /\ AccessLoadAnswered(i, [accessCalls[i] EXCEPT !.idsPhase = "done"])

\* One of the two requests throws.  The first rejection rejects the
\* Promise.all: catch and finally of openProductAccessDialog run; a later
\* one is dropped.
AccessLoadThrew(i, call) ==
  /\ IF accessCalls[i].rejected
     THEN UNCHANGED <<toast, productAccessLoading>>
     ELSE /\ toast' = AccessLoadFailedMessage
          /\ productAccessLoading' = IF call.live THEN FALSE
                                     ELSE productAccessLoading
  /\ AccessLoadMoved(i, [call EXCEPT !.rejected = TRUE])
  /\ UNCHANGED <<server, cart, form, calls, net, serverOrders, history, admin,
                 customers, productAccessUser, allProducts,
                 selectedProductIds, productAccessSaving, assigned, area>>

\* GET /products of a load failed, by a rejected fetch or a status that is
\* not ok and is not a 401 apiFetch still retries.
AccessProductsFailed(i) ==
  /\ accessCalls[i].kind = "load"
  /\ accessCalls[i].phase = "get"
  /\ AccessLoadThrew(i, [accessCalls[i] EXCEPT !.phase = "failed"])
  /\ UNCHANGED session

\* fetchCustomerProductIds of a load rejects.
AccessIdsFailed(i) ==
  /\ accessCalls[i].kind = "load"
  /\ accessCalls[i].idsPhase = "get"
  /\ AccessLoadThrew(i, [accessCalls[i] EXCEPT !.idsPhase = "failed"])
  /\ UNCHANGED session

\* GET /products of a load answered 401 while retry is set.
AccessProductsUnauthorized(i) ==
  /\ accessCalls[i].kind = "load"
  /\ accessCalls[i].phase = "get"
  /\ accessCalls[i].retry
  /\ IF hasTokens
     THEN /\ accessCalls' = [accessCalls EXCEPT ![i].phase = "refresh"]
          /\ UNCHANGED <<server, session, cart, form, toast, calls, net,
                         serverOrders, history, admin, customers,
                         productAccessUser, allProducts, selectedProductIds,
                         productAccessLoading, productAccessSaving, assigned,
                         area>>
     ELSE /\ SessionExpired
          /\ AccessLoadThrew(i, [accessCalls[i] EXCEPT !.phase = "failed"])

\* POST /auth/refresh answered 2xx: setTokens, then GET /products is sent
\* again with retry = false.
AccessProductsRefreshSucceeded(i) ==
  /\ accessCalls[i].kind = "load"
  /\ accessCalls[i].phase = "refresh"
  /\ hasTokens' = TRUE
  /\ accessCalls' = [accessCalls EXCEPT ![i].phase = "get",
                                        ![i].retry = FALSE,
                                        ![i].products = catalog]
  /\ UNCHANGED <<server, authenticated, userStored, navigating, page, cart,
                 form, toast, calls, net, serverOrders, history, admin,
                 customers, productAccessUser, allProducts,
                 selectedProductIds, productAccessLoading,
                 productAccessSaving, assigned, area>>

\* POST /auth/refresh failed: tryRefresh returns false.
AccessProductsRefreshFailed(i) ==
  /\ accessCalls[i].kind = "load"
  /\ accessCalls[i].phase = "refresh"
  /\ SessionExpired
  /\ AccessLoadThrew(i, [accessCalls[i] EXCEPT !.phase = "failed"])

\* setCustomerProducts resolves: the server holds the ids sent for the
\* customer, the dialog is closed, then finally.
AccessSaveSucceeded(i) ==
  /\ accessCalls[i].kind = "save"
  /\ assigned' = [assigned EXCEPT ![accessCalls[i].user.id] = accessCalls[i].ids]
  /\ toast' = AccessUpdatedMessage(accessCalls[i].user)
  /\ IF accessCalls[i].live
     THEN productAccessUser' = null /\ productAccessSaving' = FALSE
     ELSE UNCHANGED <<productAccessUser, productAccessSaving>>
  /\ accessCalls' = RemoveAt(accessCalls, i)
  /\ UNCHANGED <<server, session, cart, form, calls, net, serverOrders, history,
                 admin, customers, allProducts, selectedProductIds,
                 productAccessLoading, area>>

\* setCustomerProducts rejects: catch and finally run.  message is
\* err.message.
AccessSaveFailed(i) ==
  /\ accessCalls[i].kind = "save"
  /\ \E message \in {"", "Bad Request"} :
       toast' = IF message = "" THEN AccessSaveFailedMessage ELSE message
  /\ productAccessSaving' = IF accessCalls[i].live THEN FALSE
                            ELSE productAccessSaving
  /\ accessCalls' = RemoveAt(accessCalls, i)
  /\ UNCHANGED <<server, session, cart, form, calls, net, serverOrders, history,
                 admin, customers, productAccessUser, allProducts,
                 selectedProductIds, productAccessLoading, assigned, area>>

AccessResponse ==
  \E i \in 1..Len(accessCalls) :
    \/ AccessProductsSucceeded(i)
    \/ AccessIdsSucceeded(i)
    \/ AccessProductsFailed(i)
    \/ AccessIdsFailed(i)
    \/ AccessProductsUnauthorized(i)
    \/ AccessProductsRefreshSucceeded(i)
    \/ AccessProductsRefreshFailed(i)
    \/ AccessSaveSucceeded(i)
    \/ AccessSaveFailed(i)

(***************************************************************************)
(* AdminDashboard: the statistics and the recent orders                    *)
(***************************************************************************)
\* What GET /dashboard/stats answers, a DashboardStats: the server counts
\* what it holds.
ServerStats ==
  [totalOrders |-> Len(serverOrders),
   pendingOrders |->
     Len(SelectSeq(serverOrders, LAMBDA o : o.status = "pending")),
   totalProducts |-> Len(catalog),
   totalCustomers |-> Len(serverCustomers)]

\* One request of apiFetch: where it stands and its retry argument.
NewRequest == [phase |-> "get", retry |-> TRUE]

\* The Promise.all of the mount effect: fetchDashboardStats and fetchOrders
\* are in flight together.  The Promise.all rejects with the first of them
\* that throws, while the other goes on.
NewStatsLoad ==
  [live |-> TRUE, rejected |-> FALSE,
   stats |-> NewRequest, orders |-> NewRequest,
   statsData |-> ServerStats, ordersData |-> serverOrders]

\* ordersData.slice(0, 5)
RecentOf(arr) == SubSeq(arr, 1, IF Len(arr) < 5 THEN Len(arr) ELSE 5)

\* One request of the load has moved: the load is over once both requests
\* have been answered or have thrown.
StatsMoved(i, call) ==
  statsLoads' =
    IF /\ call.stats.phase \in {"done", "failed"}
       /\ call.orders.phase \in {"done", "failed"}
    THEN RemoveAt(statsLoads, i)
    ELSE [statsLoads EXCEPT ![i] = call]

\* A request of the Promise.all throws.  The first one to throw rejects the
\* Promise.all: catch writes to the console, finally setLoading(false).
StatsThrew(i, which) ==
  /\ statsLoading' = IF statsLoads[i].live /\ ~statsLoads[i].rejected
                     THEN FALSE
                     ELSE statsLoading
  /\ StatsMoved(i, [statsLoads[i] EXCEPT ![which].phase = "failed",
                                         !.rejected = TRUE])
  /\ UNCHANGED <<server, cart, form, toast, calls, net, serverOrders, history,
                 admin, access, stats, recentOrders, productsPage>>

\* A request of the mount effect's Promise.all moves on.
StatsResponse ==
  \E i \in 1..Len(statsLoads), which \in {"stats", "orders"} :
    \* answered 2xx; with both answered: setStats, setRecentOrders, finally
    \/ /\ statsLoads[i][which].phase = "get"
       /\ LET call == [statsLoads[i] EXCEPT ![which].phase = "done"]
          IN  /\ IF /\ call.live
                    /\ call.stats.phase = "done"
                    /\ call.orders.phase = "done"
                 THEN /\ stats' = <<call.statsData>>
                      /\ recentOrders' = RecentOf(call.ordersData)
                      /\ statsLoading' = FALSE
                 ELSE UNCHANGED <<stats, recentOrders, statsLoading>>
              /\ StatsMoved(i, call)
       /\ UNCHANGED <<server, session, cart, form, toast, calls, net,
                      serverOrders, history, admin, access, productsPage>>
    \* failed, other than by a 401 apiFetch still retries
    \/ /\ statsLoads[i][which].phase = "get"
       /\ StatsThrew(i, which)
       /\ UNCHANGED session
    \* answered 401 while retry is set
    \/ /\ statsLoads[i][which].phase = "get"
       /\ statsLoads[i][which].retry
       /\ IF hasTokens
          THEN /\ statsLoads' =
                    [statsLoads EXCEPT ![i][which].phase = "refresh"]
               /\ UNCHANGED <<server, session, cart, form, toast, calls, net,
                              serverOrders, history, admin, access, stats,
                              recentOrders, statsLoading, productsPage>>
          ELSE /\ SessionExpired
               /\ StatsThrew(i, which)
    \* POST /auth/refresh answered 2xx: the request is sent again
    \/ /\ statsLoads[i][which].phase = "refresh"
       /\ hasTokens' = TRUE
       /\ statsLoads' =
            [statsLoads EXCEPT ![i][which] = [phase |-> "get", retry |-> FALSE],
                               ![i].statsData = IF which = "stats"
                                                THEN ServerStats ELSE @,
                               ![i].ordersData = IF which = "orders"
                                                 THEN serverOrders ELSE @]
       /\ UNCHANGED <<server, authenticated, userStored, navigating, page,
                      cart, form, toast, calls, net, serverOrders, history,
                      admin, access, stats, recentOrders, statsLoading,
                      productsPage>>
    \* POST /auth/refresh failed
    \/ /\ statsLoads[i][which].phase = "refresh"
       /\ SessionExpired
       /\ StatsThrew(i, which)

(***************************************************************************)
(* AdminProducts: the product list and the Add / Edit dialog               *)
(***************************************************************************)
ProductAddedMessage == "Product added successfully"
ProductUpdatedMessage == "Product updated successfully"
ProductSaveFailedMessage == "Failed to save product"

\* The server holds at most this many products.
MaxProducts == 2

\* The id the server gives the n-th product.
ProductId(n) == <<"P">> \o NumToChars(n)

\* The useState initial value of formData; the price field is left out, as
\* is the price of a product.
EmptyProductForm ==
  [name |-> "", styleNumber |-> "", sizes |-> <<>>, colors |-> <<>>]

\* What the admin can type into the name and the style number input.
ProductNameInputs == {"", "Cap"}
StyleInputs == {"ST-9"}

\* What the admin can type into the sizes input: nothing, and a list with
\* blanks and an empty part.
SizesInputs == { <<>>, <<"S", ",", " ", ",", "L">> }

\* What the admin can type into the colours input: a text that holds no
\* part, and a colour after a blank.
ColorsInputs == { <<" ", ",">>, <<" ">> \o Red }

RECURSIVE TrimAll(_)
TrimAll(parts) ==
  IF parts = <<>> THEN <<>> ELSE <<Trim(Head(parts))>> \o TrimAll(Tail(parts))

\* text.split(',').map(s => s.trim()).filter(Boolean)
ListOf(text) ==
  SelectSeq(TrimAll(Split(text, ",", <<>>)), LAMBDA part : part # <<>>)

\* The page is rendered and no dialog covers it.
ProductRowsShown ==
  /\ authenticated
  /\ page = "adminProducts"
  /\ ~productsLoading
  /\ ~productDialogOpen

ProductFormShown ==
  authenticated /\ page = "adminProducts" /\ productDialogOpen

\* The mount effect's fetchProducts moves on: loadProducts.
LoadAdminProducts ==
  \E i \in 1..Len(adminProductLoads) :
    LET threw ==
          /\ toast' = ProductsFailedMessage
          /\ productsLoading' = IF adminProductLoads[i].live
                                THEN FALSE
                                ELSE productsLoading
          /\ adminProductLoads' = RemoveAt(adminProductLoads, i)
          /\ UNCHANGED <<server, cart, form, calls, net, serverOrders,
                         history, admin, access, overview, adminProducts,
                         productDialogOpen, editingProduct, productForm,
                         productSubmitting, productCalls>>
        waits ==
          UNCHANGED <<server, cart, form, toast, calls, net, serverOrders,
                      history, admin, access, overview, adminProducts,
                      productsLoading, productDialogOpen, editingProduct,
                      productForm, productSubmitting, productCalls>>
    IN
    \* answered 2xx: setProducts(data), then finally
    \/ /\ adminProductLoads[i].phase = "get"
       /\ IF adminProductLoads[i].live
          THEN adminProducts' = catalog /\ productsLoading' = FALSE
          ELSE UNCHANGED <<adminProducts, productsLoading>>
       /\ adminProductLoads' = RemoveAt(adminProductLoads, i)
       /\ UNCHANGED <<server, session, cart, form, toast, calls, net,
                      serverOrders, history, admin, access, overview,
                      productDialogOpen, editingProduct, productForm,
                      productSubmitting, productCalls>>
    \* failed, other than by a 401 apiFetch still retries
    \/ /\ adminProductLoads[i].phase = "get"
       /\ threw
       /\ UNCHANGED session
    \* answered 401 while retry is set
    \/ /\ adminProductLoads[i].phase = "get"
       /\ adminProductLoads[i].retry
       /\ IF hasTokens
          THEN /\ adminProductLoads' =
                    [adminProductLoads EXCEPT ![i].phase = "refresh"]
               /\ UNCHANGED session
               /\ waits
          ELSE SessionExpired /\ threw
    \* POST /auth/refresh answered 2xx: GET /products is sent again
    \/ /\ adminProductLoads[i].phase = "refresh"
       /\ hasTokens' = TRUE
       /\ adminProductLoads' =
            [adminProductLoads EXCEPT ![i].phase = "get", ![i].retry = FALSE]
       /\ UNCHANGED <<authenticated, userStored, navigating, page>>
       /\ waits
    \* POST /auth/refresh failed
    \/ /\ adminProductLoads[i].phase = "refresh"
       /\ SessionExpired
       /\ threw

\* The Add Product button.
openAddProductDialog ==
  /\ ProductRowsShown
  /\ editingProduct' = null
  /\ productForm' = EmptyProductForm
  /\ productDialogOpen' = TRUE
  /\ UNCHANGED <<server, session, cart, form, toast, calls, net, serverOrders,
                 history, admin, access, overview, adminProducts,
                 productsLoading, productSubmitting, adminProductLoads,
                 productCalls>>

\* The edit button of a row: the lists are joined with ', '.
openEditProductDialog ==
  /\ ProductRowsShown
  /\ \E i \in 1..Len(adminProducts) :
       /\ editingProduct' = <<adminProducts[i]>>
       /\ productForm' =
            [name |-> adminProducts[i].name,
             styleNumber |-> adminProducts[i].styleNumber,
             sizes |-> Join(adminProducts[i].sizes, <<",", " ">>),
             colors |-> Join(adminProducts[i].colors, <<",", " ">>)]
  /\ productDialogOpen' = TRUE
  /\ UNCHANGED <<server, session, cart, form, toast, calls, net, serverOrders,
                 history, admin, access, overview, adminProducts,
                 productsLoading, productSubmitting, adminProductLoads,
                 productCalls>>

\* The onChange handler of one of the form's inputs.
ProductFormChange ==
  /\ ProductFormShown
  /\ \/ \E value \in ProductNameInputs :
          productForm' = [productForm EXCEPT !.name = value]
     \/ \E value \in StyleInputs :
          productForm' = [productForm EXCEPT !.styleNumber = value]
     \/ \E value \in SizesInputs :
          productForm' = [productForm EXCEPT !.sizes = value]
     \/ \E value \in ColorsInputs :
          productForm' = [productForm EXCEPT !.colors = value]
  /\ productForm' # productForm
  /\ UNCHANGED <<server, session, cart, form, toast, calls, net, serverOrders,
                 history, admin, access, overview, adminProducts,
                 productsLoading, productDialogOpen, editingProduct,
                 productSubmitting, adminProductLoads, productCalls>>

\* Cancel, or the dialog's onOpenChange(false).
CloseProductForm ==
  /\ ProductFormShown
  /\ productDialogOpen' = FALSE
  /\ UNCHANGED <<server, session, cart, form, toast, calls, net, serverOrders,
                 history, admin, access, overview, adminProducts,
                 productsLoading, editingProduct, productForm,
                 productSubmitting, adminProductLoads, productCalls>>

\* handleSubmit of the form, whose submit button is disabled while
\* submitting and whose four inputs are required: setSubmitting(true), then
\* updateProduct for a product being edited, createProduct otherwise.
handleSubmitProduct ==
  /\ ProductFormShown
  /\ ~productSubmitting
  /\ productForm.name # ""
  /\ productForm.styleNumber # ""
  /\ productForm.sizes # <<>>
  /\ productForm.colors # <<>>
  /\ CanRequest
  /\ productSubmitting' = TRUE
  /\ productCalls' =
       Append(productCalls,
              [phase |-> "send", retry |-> TRUE, live |-> TRUE,
               id |-> IF editingProduct = null
                      THEN null
                      ELSE editingProduct[1].id,
               body |-> [name |-> productForm.name,
                         styleNumber |-> productForm.styleNumber,
                         sizes |-> ListOf(productForm.sizes),
                         colors |-> ListOf(productForm.colors)]])
  /\ UNCHANGED <<server, session, cart, form, toast, calls, net, serverOrders,
                 history, admin, access, overview, adminProducts,
                 productsLoading, productDialogOpen, editingProduct,
                 productForm, adminProductLoads>>

\* The product the server holds once it has answered the call 2xx: a new
\* one for POST /products, the one of that id with the fields of the body
\* for PUT /products/:id.
SavedProduct(call) ==
  IF call.id = null
  THEN [id |-> ProductId(Len(catalog) + 1), name |-> call.body.name,
        styleNumber |-> call.body.styleNumber, colors |-> call.body.colors,
        sizes |-> call.body.sizes, sizesInNumber |-> <<>>]
  ELSE [id |-> call.id, name |-> call.body.name,
        styleNumber |-> call.body.styleNumber, colors |-> call.body.colors,
        sizes |-> call.body.sizes,
        sizesInNumber |->
          LET held == SelectSeq(catalog, LAMBDA p : p.id = call.id)
          IN  IF held = <<>> THEN <<>> ELSE held[1].sizesInNumber]

\* A createProduct or updateProduct call moves on.
ProductSaveResponse ==
  \E i \in 1..Len(productCalls) :
    LET call == productCalls[i]
        \* catch: toast.error(err.message || ...), finally
        threw(message) ==
          /\ toast' = message
          /\ productSubmitting' = IF call.live THEN FALSE ELSE productSubmitting
          /\ productCalls' = RemoveAt(productCalls, i)
          /\ UNCHANGED <<server, cart, form, calls, net, serverOrders,
                         history, admin, access, overview, adminProducts,
                         productsLoading, productDialogOpen, editingProduct,
                         productForm, adminProductLoads>>
        waits ==
          UNCHANGED <<server, cart, form, toast, calls, net, serverOrders,
                      history, admin, access, overview, adminProducts,
                      productsLoading, productDialogOpen, editingProduct,
                      productForm, productSubmitting, adminProductLoads>>
    IN
    \* answered 2xx: the server holds the product; setProducts, toast,
    \* setIsDialogOpen(false), finally.  The toast is raised whether or not
    \* the page is still mounted.
    \/ /\ call.phase = "send"
       /\ call.id = null => Len(catalog) < MaxProducts
       /\ catalog' = IF call.id = null
                     THEN Append(catalog, SavedProduct(call))
                     ELSE Replaced(catalog, SavedProduct(call))
       /\ toast' = IF call.id = null
                   THEN ProductAddedMessage
                   ELSE ProductUpdatedMessage
       /\ IF call.live
          THEN /\ adminProducts' =
                    IF call.id = null
                    THEN <<SavedProduct(call)>> \o adminProducts
                    ELSE Replaced(adminProducts, SavedProduct(call))
               /\ productDialogOpen' = FALSE
               /\ productSubmitting' = FALSE
          ELSE UNCHANGED <<adminProducts, productDialogOpen,
                           productSubmitting>>
       /\ productCalls' = RemoveAt(productCalls, i)
       /\ UNCHANGED <<ordersCreated, session, cart, form, calls, net,
                      serverOrders, history, admin, access, overview,
                      productsLoading, editingProduct, productForm,
                      adminProductLoads>>
    \* failed, other than by a 401 apiFetch still retries
    \/ /\ call.phase = "send"
       /\ \E message \in {"", "Bad Request"} :
            threw(IF message = "" THEN ProductSaveFailedMessage ELSE message)
       /\ UNCHANGED session
    \* answered 401 while retry is set
    \/ /\ call.phase = "send"
       /\ call.retry
       /\ IF hasTokens
          THEN /\ productCalls' = [productCalls EXCEPT ![i].phase = "refresh"]
               /\ UNCHANGED session
               /\ waits
          ELSE SessionExpired /\ threw(SessionExpiredMessage)
    \* POST /auth/refresh answered 2xx: the call is sent again
    \/ /\ call.phase = "refresh"
       /\ hasTokens' = TRUE
       /\ productCalls' =
            [productCalls EXCEPT ![i].phase = "send", ![i].retry = FALSE]
       /\ UNCHANGED <<authenticated, userStored, navigating, page>>
       /\ waits
    \* POST /auth/refresh failed
    \/ /\ call.phase = "refresh"
       /\ SessionExpired
       /\ threw(SessionExpiredMessage)


(***************************************************************************)
(* Session: AuthProvider login and logout, logoutApi, the reload           *)
(***************************************************************************)
\* The POST /auth/logout of a logoutApi.
NewLogout == [phase |-> "post", retry |-> TRUE]

\* AdminOrders' useState initial values, primed.
AdminOrdersReset ==
  /\ adminOrders' = mockOrders
  /\ searchQuery' = <<>>
  /\ selectedOrder' = null

\* AdminCustomers' useState initial values, primed.
CustomersReset ==
  /\ users' = <<>>
  /\ customersLoading' = TRUE
  /\ isDialogOpen' = FALSE
  /\ editingUser' = null
  /\ formData' = EmptyForm
  /\ submitting' = FALSE
  /\ shareCredentialsUser' = null
  /\ productAccessUser' = null
  /\ allProducts' = <<>>
  /\ selectedProductIds' = {}
  /\ productAccessLoading' = FALSE
  /\ productAccessSaving' = FALSE

\* AdminDashboard's useState initial values, primed.
OverviewReset ==
  /\ stats' = null
  /\ recentOrders' = <<>>
  /\ statsLoading' = TRUE

\* AdminProducts' useState initial values, primed.
ProductsPageReset ==
  /\ adminProducts' = <<>>
  /\ productsLoading' = TRUE
  /\ productDialogOpen' = FALSE
  /\ editingProduct' = null
  /\ productForm' = EmptyProductForm
  /\ productSubmitting' = FALSE

\* The routes AdminLayout renders for a logged-in admin.
AdminPages == {"admin", "adminOrders", "adminProducts", "adminCustomers"}

\* The admin sidebar can be operated while no modal dialog covers it.
SidebarShown ==
  /\ authenticated
  /\ userStored = "admin"
  /\ page \in AdminPages
  /\ selectedOrder = null
  /\ productAccessUser = null
  /\ ~isDialogOpen
  /\ shareCredentialsUser = null
  /\ ~productDialogOpen

\* The page of the admin area that was on screen unmounts, its calls stay
\* in flight, and the page at the target route mounts with its useState
\* initial values and runs its mount effect; a target outside the admin
\* area mounts none.
AdminPageMounts(target) ==
  /\ target \in {"admin", "adminProducts", "adminCustomers"} => CanRequest
  /\ AdminOrdersReset
  /\ CustomersReset
  /\ OverviewReset
  /\ ProductsPageReset
  /\ customerCalls' = Orphaned(customerCalls)
  /\ accessCalls' = Orphaned(accessCalls)
  /\ productCalls' = Orphaned(productCalls)
  /\ statsLoads' = IF target = "admin"
                   THEN Append(Orphaned(statsLoads), NewStatsLoad)
                   ELSE Orphaned(statsLoads)
  /\ adminProductLoads' =
       IF target = "adminProducts"
       THEN Append(Orphaned(adminProductLoads), NewProductLoad)
       ELSE Orphaned(adminProductLoads)
  /\ customerLoads' = IF target = "adminCustomers"
                      THEN Append(Orphaned(customerLoads), NewCustomerLoad)
                      ELSE Orphaned(customerLoads)
  /\ UNCHANGED <<mockOrders, exported, statusCalls, serverCustomers, assigned>>

\* A NavLink of the admin sidebar.
Navigate ==
  /\ SidebarShown
  /\ \E target \in AdminPages \ {page} :
       /\ page' = target
       /\ AdminPageMounts(target)
  /\ UNCHANGED <<server, authenticated, hasTokens, userStored, navigating,
                 cart, form, toast, calls, net, serverOrders, history>>

\* The dashboard header's logout button and the admin sidebar's Sign Out.
LogoutShown == DashboardShown \/ SidebarShown

\* AuthProvider.logout: logoutApi sends its request if a refresh token is
\* stored, then clearTokens, clearUser, setUser(null).  The page renders
\* <Navigate to="/">, so it unmounts; its calls stay in flight.
Logout ==
  /\ LogoutShown
  /\ IF hasTokens
     THEN /\ CanRequest
          /\ logouts' = Append(logouts, NewLogout)
     ELSE UNCHANGED logouts
  /\ hasTokens' = FALSE
  /\ userStored' = "none"
  /\ authenticated' = FALSE
  /\ page' = "index"
  /\ DashboardReset
  /\ AdminPageMounts("index")
  /\ calls' = Orphaned(calls)
  /\ productLoads' = Orphaned(productLoads)
  /\ loads' = Orphaned(loads)
  /\ UNCHANGED <<server, navigating, toast, serverOrders>>

\* POST /auth/logout is answered, or fails, other than by a 401 apiFetch
\* still retries: logoutApi ignores the outcome.
LogoutSettled(i) ==
  /\ logouts[i].phase = "post"
  /\ logouts' = RemoveAt(logouts, i)
  /\ UNCHANGED <<server, session, cart, form, toast, calls, productLoads,
                 views>>

\* POST /auth/logout answered 401 while retry is set.
LogoutUnauthorized(i) ==
  /\ logouts[i].phase = "post"
  /\ logouts[i].retry
  /\ IF hasTokens
     THEN /\ logouts' = [logouts EXCEPT ![i].phase = "refresh"]
          /\ UNCHANGED session
     ELSE /\ SessionExpired
          /\ logouts' = RemoveAt(logouts, i)
  /\ UNCHANGED <<server, cart, form, toast, calls, productLoads, views>>

\* POST /auth/refresh answered 2xx: setTokens, then POST /auth/logout is
\* sent again with retry = false.
LogoutRefreshSucceeded(i) ==
  /\ logouts[i].phase = "refresh"
  /\ hasTokens' = TRUE
  /\ logouts' = [logouts EXCEPT ![i].phase = "post", ![i].retry = FALSE]
  /\ UNCHANGED <<server, authenticated, userStored, navigating, page, cart,
                 form, toast, calls, productLoads, views>>

\* POST /auth/refresh failed: tryRefresh returns false.
LogoutRefreshFailed(i) ==
  /\ logouts[i].phase = "refresh"
  /\ SessionExpired
  /\ logouts' = RemoveAt(logouts, i)
  /\ UNCHANGED <<server, cart, form, toast, calls, productLoads, views>>

LogoutResponse ==
  \E i \in 1..Len(logouts) :
    \/ LogoutSettled(i)
    \/ LogoutUnauthorized(i)
    \/ LogoutRefreshSucceeded(i)
    \/ LogoutRefreshFailed(i)

\* The role a login form asks for, and the role of the user the server
\* answers with.
Roles == {"customer", "admin"}

\* A login form is submitted and POST /auth/login is answered with tokens
\* and a user: AuthProvider.login stores them, the user with the role the
\* server gave it, whatever the form asked for.  The form then navigates to
\* its own area, '/customer' or '/admin'.  The customer dashboard mounts
\* for a customer and its effect calls fetchProducts; AdminLayout renders
\* the admin dashboard for an admin; for a user of the other role either
\* renders <Navigate to="/">.  A login that fails changes nothing here.
Login ==
  /\ page = "index"
  /\ \E portal \in Roles, role \in Roles :
       /\ authenticated' = TRUE
       /\ hasTokens' = TRUE
       /\ userStored' = role
       /\ IF portal = "customer" /\ role = "customer"
          THEN /\ CanRequest
               /\ page' = "customer"
               /\ productLoads' = Append(productLoads, NewProductLoad)
               /\ UNCHANGED <<admin, access, area>>
          ELSE IF portal = "admin" /\ role = "admin"
          THEN /\ page' = "admin"
               /\ AdminPageMounts("admin")
               /\ UNCHANGED productLoads
          ELSE /\ page' = "index"
               /\ UNCHANGED <<productLoads, admin, access, area>>
  /\ UNCHANGED <<server, navigating, cart, form, toast, calls, logouts,
                 serverOrders, history>>

\* The browser commits a new document, after apiFetch has assigned
\* window.location.href or from a login page, whose link to the other login
\* page is a plain anchor: every component state and every request of the
\* old document is gone, and the AuthProvider of the new document restores
\* the user if localStorage holds a token and a user.
Reload ==
  /\ navigating \/ page = "index"
  /\ navigating' = FALSE
  /\ page' = "index"
  /\ IF hasTokens /\ userStored # "none"
     THEN authenticated' = TRUE /\ UNCHANGED <<hasTokens, userStored>>
     ELSE /\ authenticated' = FALSE
          /\ hasTokens' = FALSE
          /\ userStored' = IF hasTokens THEN "none" ELSE userStored
  /\ DashboardReset
  /\ AdminOrdersReset
  /\ CustomersReset
  /\ OverviewReset
  /\ ProductsPageReset
  /\ toast' = ""
  /\ calls' = <<>>
  /\ productLoads' = <<>>
  /\ logouts' = <<>>
  /\ loads' = <<>>
  /\ statusCalls' = <<>>
  /\ customerLoads' = <<>>
  /\ customerCalls' = <<>>
  /\ accessCalls' = <<>>
  /\ statsLoads' = <<>>
  /\ adminProductLoads' = <<>>
  /\ productCalls' = <<>>
  /\ UNCHANGED <<server, serverOrders, mockOrders, exported, serverCustomers,
                 assigned>>

(***************************************************************************)
(* Specifications                                                          *)
(***************************************************************************)
\* CustomerDashboard's useState initial values.
DashboardFresh ==
  /\ products = <<>>
  /\ loading = TRUE
  /\ selections = <<>>
  /\ poNumber = <<>>
  /\ poError = ""
  /\ isSubmitting = FALSE
  /\ lastOrderId = <<>>
  /\ lastPoNumber = <<>>
  /\ showConfirmation = FALSE
  /\ activeTab = "catalog"
  /\ orders = <<>>
  /\ ordersLoading = FALSE
  /\ expandedOrderId = null
  /\ calls = <<>>
  /\ loads = <<>>

\* AdminDashboard's and AdminProducts' useState initial values.
AreaFresh ==
  /\ stats = null
  /\ recentOrders = <<>>
  /\ statsLoading = TRUE
  /\ statsLoads = <<>>
  /\ adminProducts = <<>>
  /\ productsLoading = TRUE
  /\ productDialogOpen = FALSE
  /\ editingProduct = null
  /\ productForm = EmptyProductForm
  /\ productSubmitting = FALSE
  /\ productCalls = <<>>

\* A customer has logged in and the dashboard mounts: its effect awaits
\* fetchProducts.
Mounted ==
  /\ ordersCreated = 0
  /\ authenticated = TRUE
  /\ hasTokens = TRUE
  /\ userStored = "customer"
  /\ navigating = FALSE
  /\ page = "customer"
  /\ DashboardFresh
  /\ AreaFresh
  /\ toast = ""
  /\ productLoads = <<NewProductLoad>>
  /\ adminProductLoads = <<>>
  /\ logouts = <<>>

\* An admin has logged in and this admin page is shown.
AdminSession(shown) ==
  /\ ordersCreated = 0
  /\ authenticated = TRUE
  /\ hasTokens = TRUE
  /\ userStored = "admin"
  /\ navigating = FALSE
  /\ page = shown
  /\ DashboardFresh
  /\ AreaFresh
  /\ toast = ""
  /\ productLoads = <<>>
  /\ adminProductLoads = IF shown = "adminProducts"
                         THEN <<NewProductLoad>>
                         ELSE <<>>
  /\ logouts = <<>>

\* AdminOrders' useState initial values, over the mock data.
AdminMounted ==
  /\ adminOrders = mockOrders
  /\ searchQuery = <<>>
  /\ selectedOrder = null
  /\ exported = null
  /\ statusCalls = <<>>

\* AdminCustomers' useState initial values.
CustomersFresh ==
  /\ users = <<>>
  /\ customersLoading = TRUE
  /\ isDialogOpen = FALSE
  /\ editingUser = null
  /\ formData = EmptyForm
  /\ submitting = FALSE
  /\ shareCredentialsUser = null
  /\ customerCalls = <<>>
  /\ productAccessUser = null
  /\ allProducts = <<>>
  /\ selectedProductIds = {}
  /\ productAccessLoading = FALSE
  /\ productAccessSaving = FALSE
  /\ accessCalls = <<>>

\* AdminCustomers as it mounts: loadCustomers is awaiting fetchCustomers.
CustomersMounted ==
  /\ CustomersFresh
  /\ customerLoads = <<NewCustomerLoad>>

\* The admin pages while they are not on screen.
AdminUnmounted ==
  /\ mockOrders = <<>>
  /\ AdminMounted
  /\ CustomersFresh
  /\ customerLoads = <<>>
  /\ serverCustomers = CustomerList
  /\ assigned = NoAccess

\* One dashboard, from the moment it mounts until a logout or a reload
\* ends it.
Init ==
  /\ catalog = CatalogPlain
  /\ serverOrders = <<>>
  /\ Mounted
  /\ AdminUnmounted

Next ==
  \/ Logout
  \/ LogoutResponse
  \/ Reload
  \/ LoadProducts
  \/ handleColorChange
  \/ handleQuantityChange
  \/ handleQuantityChangeForSizeInNumber
  \/ handleRemoveProduct
  \/ ClearAll
  \/ PoNumberChange
  \/ handleSubmitOrder
  \/ CreateResponse
  \/ CloseConfirmation
  \/ ViewOrderHistory
  \/ handleTabChange
  \/ RefreshOrders
  \/ PlaceFirstOrder
  \/ LoadResponse

Spec == Init /\ [][Next]_vars

\* Sessions of one browser, one after the other: after a logout or a reload
\* a customer or an admin logs in, while calls of the dashboard before may
\* still be in flight.
NextSession ==
  \/ Login
  \/ Logout
  \/ LogoutResponse
  \/ Reload
  \/ LoadProducts
  \/ handleQuantityChange
  \/ ClearAll
  \/ PoNumberChange
  \/ handleSubmitOrder
  \/ CreateResponse
  \/ CloseConfirmation
  \/ ViewOrderHistory
  \/ handleTabChange
  \/ RefreshOrders
  \/ PlaceFirstOrder
  \/ LoadResponse
  \/ StatsResponse

SpecSession == Init /\ [][NextSession]_vars

\* The selection model alone, over a two-product catalogue.
InitSel ==
  /\ catalog \in {CatalogTwo, CatalogNumbered}
  /\ serverOrders = <<>>
  /\ Mounted
  /\ AdminUnmounted

NextSel ==
  \/ LoadProducts
  \/ handleColorChange
  \/ handleQuantityChange
  \/ handleQuantityChangeForSizeInNumber
  \/ handleRemoveProduct
  \/ ClearAll

SpecSel == InitSel /\ [][NextSel]_vars

\* A product saved with no colour.
ProductBare == [ProductP0 EXCEPT !.colors = <<>>]

\* The selection model over a catalogue whose product has no colour.
InitBare ==
  /\ catalog = <<ProductBare>>
  /\ serverOrders = <<>>
  /\ Mounted
  /\ AdminUnmounted

NextBare ==
  \/ LoadProducts
  \/ handleQuantityChange
  \/ handleQuantityChangeForSizeInNumber

SpecBare == InitBare /\ [][NextBare]_vars

\* The submission workflow when every request sent is answered in the end.
FairSpec == Spec /\ WF_vars(CreateResponse)

\* The order history of the customer dashboard.
InitHistory ==
  /\ catalog = CatalogOne
  /\ serverOrders \in ServerOrderLists
  /\ Mounted
  /\ AdminUnmounted

NextHistory ==
  \/ LoadProducts
  \/ handleTabChange
  \/ RefreshOrders
  \/ PlaceFirstOrder
  \/ ToggleExpand
  \/ LoadResponse
  \/ Reload

SpecHistory == InitHistory /\ [][NextHistory]_vars

\* The admin orders page: list, search and detail dialog.
InitAdmin ==
  /\ catalog = CatalogOne
  /\ serverOrders = <<>>
  /\ AdminSession("adminOrders")
  /\ mockOrders \in MockOrderLists
  /\ AdminMounted
  /\ CustomersFresh
  /\ customerLoads = <<>>
  /\ serverCustomers = CustomerList
  /\ assigned = NoAccess

NextAdmin ==
  \/ setSearchQuery
  \/ OpenDetail
  \/ CloseDetail
  \/ RowStatusChange
  \/ DetailStatusChange
  \/ Logout

SpecAdmin == InitAdmin /\ [][NextAdmin]_vars

\* The admin orders page: list, search and export.
NextCsv ==
  \/ setSearchQuery
  \/ exportToExcel

SpecCsv == InitAdmin /\ [][NextCsv]_vars

\* The admin customers page: list, Add / Edit form, share credentials.
InitCustomers ==
  /\ catalog = CatalogOne
  /\ serverOrders = <<>>
  /\ AdminSession("adminCustomers")
  /\ mockOrders = <<>>
  /\ AdminMounted
  /\ serverCustomers = CustomerList
  /\ CustomersMounted
  /\ assigned = NoAccess

NextCustomers ==
  \/ LoadCustomers
  \/ openAddDialog
  \/ openEditDialog
  \/ NameChange
  \/ generatePassword
  \/ CloseForm
  \/ handleOpenShareCredentials
  \/ CloseShare
  \/ copyToClipboard
  \/ handleSubmit
  \/ CustomerSaveResponse
  \/ Logout
  \/ LogoutResponse
  \/ Reload

SpecCustomers == InitCustomers /\ [][NextCustomers]_vars

\* Nobody is logged in and the landing page is shown.
LoggedOut ==
  /\ ordersCreated = 0
  /\ authenticated = FALSE
  /\ hasTokens = FALSE
  /\ userStored = "none"
  /\ navigating = FALSE
  /\ page = "index"
  /\ DashboardFresh
  /\ AreaFresh
  /\ toast = ""
  /\ productLoads = <<>>
  /\ adminProductLoads = <<>>
  /\ logouts = <<>>

\* The admin area from the landing page on: the two logins, the sidebar
\* and the mount effects of the pages.
InitArea ==
  /\ catalog = CatalogOne
  /\ serverOrders = <<>>
  /\ LoggedOut
  /\ AdminUnmounted

NextArea ==
  \/ Login
  \/ Logout
  \/ LogoutResponse
  \/ Reload
  \/ Navigate
  \/ StatsResponse
  \/ LoadProducts
  \/ LoadCustomers
  \/ LoadAdminProducts

SpecArea == InitArea /\ [][NextArea]_vars

\* The admin products page, whose saves change the catalogue the server
\* holds.
InitProducts ==
  /\ catalog = CatalogOne
  /\ serverOrders = <<>>
  /\ AdminSession("adminProducts")
  /\ AdminUnmounted

NextProducts ==
  \/ Logout
  \/ LogoutResponse
  \/ Reload
  \/ LoadAdminProducts
  \/ openAddProductDialog
  \/ openEditProductDialog
  \/ ProductFormChange
  \/ CloseProductForm
  \/ handleSubmitProduct
  \/ ProductSaveResponse

SpecProducts == InitProducts /\ [][NextProducts]_vars

(***************************************************************************)
(* Properties                                                              *)
(***************************************************************************)
\* The creation calls of the dashboard on screen; the calls of a dashboard
\* that was unmounted are still answered, by nobody.
LiveCalls == SelectSeq(calls, LAMBDA call : call.live)

\* Steps of the workflow, told apart by what they do to the calls and to
\* the server.
SubmitStarted == Len(calls') = Len(calls) + 1

\* The dashboard on screen handles the success of its call.
CreationSucceeded ==
  /\ ordersCreated' = ordersCreated + 1
  /\ \E i \in 1..Len(calls) : calls[i].live /\ calls' = RemoveAt(calls, i)

\* The call ends in apiFetch's clearTokens(); window.location.href = '/'.
CreateExpired(i) ==
  RefreshFailed(i) \/ (~hasTokens /\ CreateUnauthorized(i))

FormKept == selections' = selections /\ poNumber' = poNumber

\* t is s without its leading and trailing white space.
IsTrimOf(t, s) ==
  /\ t = <<>> \/ (~IsSpace(t[1]) /\ ~IsSpace(t[Len(t)]))
  /\ \E a \in 0..Len(s) :
       /\ a + Len(t) <= Len(s)
       /\ \A i \in 1..Len(s) :
            IF i > a /\ i <= a + Len(t) THEN s[i] = t[i - a] ELSE IsSpace(s[i])

\* The (selection, size) pairs whose stored quantity is > 0.
PositivePairs(sels) ==
  UNION { { <<i, j>> : j \in {j \in 1..Len(sels[i].val.quantities) :
                                 sels[i].val.quantities[j].val > 0} } :
          i \in 1..Len(sels) }

ItemOfPair(item, sels, p) ==
  LET sel == sels[p[1]].val
      e   == sel.quantities[p[2]]
  IN  /\ item.productId = sel.productId
      /\ item.productName = sel.productName
      /\ item.color = sel.selectedColor
      /\ item.size = e.key
      /\ item.quantity = e.val

\* C1: a submit action starts a creation call only if, at that moment, the
\* total quantity is > 0 and the PO number is not blank after trimming.
C1_CallOnlyWhenValid ==
  [][SubmitStarted =>
       /\ PositivePairs(selections) # {}
       /\ \E i \in 1..Len(poNumber) : ~IsSpace(poNumber[i])]_vars

\* A submit with items and a blank PO number was turned down and no call
\* was made.
C1_Witness ==
  /\ poError = PoRequiredMessage
  /\ totalItems > 0
  /\ calls = <<>>
  /\ ordersCreated = 0

\* C2: a dashboard has at most one creation call in flight, and only while
\* isSubmitting.
C2_OneCallInFlight ==
  /\ Len(LiveCalls) <= 1
  /\ LiveCalls # <<>> => isSubmitting

\* The call of the dashboard on screen is in flight next to the call of a
\* dashboard that was left by a logout, and the form would pass validation
\* again.
C2_Witness ==
  /\ Len(calls) = 2
  /\ Len(LiveCalls) = 1
  /\ isSubmitting
  /\ SubmitRejection(totalItems, poNumber) = "none"

\* C3 as claimed: a creation call sends exactly one POST /orders request.
C3_Original == \A i \in 1..Len(calls) : calls[i].posts = 1

\* C3 as amended: a submit starts one call with one request sent; the call
\* sends a second request only after a 401 answered by a successful token
\* refresh, and that second request is sent with retry off, so there is
\* never a third.
C3_AtMostOneReissue ==
  \A i \in 1..Len(calls) :
    /\ calls[i].posts = IF calls[i].retry THEN 1 ELSE 2
    /\ calls[i].phase = "refresh" => calls[i].retry

\* The request of a call has been sent a second time.
C3_Witness ==
  \E i \in 1..Len(calls) : calls[i].posts = 2 /\ calls[i].phase = "post"

\* C4: right after a creation call has succeeded the selection model and
\* the PO number field are empty.
C4_ClearedOnSuccess ==
  [][CreationSucceeded => selections' = <<>> /\ poNumber' = <<>>]_vars

\* A success has been handled.
C4_Witness ==
  /\ showConfirmation
  /\ lastOrderId # <<>>
  /\ lastPoNumber # <<>>
  /\ selections = <<>>
  /\ poNumber = <<>>

\* C5: neither the submit nor any answer to a creation call changes the
\* selections or the PO number, but the answer that is a handled success:
\* not on entering Submitting, not while the call is in flight, not when
\* the call fails, the failure that expires the session included.
C5_ClearedOnlyOnSuccess ==
  [][(handleSubmitOrder \/ CreateResponse)
       => (CreationSucceeded \/ FormKept)]_vars

\* A failure has been handled and the form is as it was submitted.
C5_Witness ==
  /\ toast \in {FailureMessage, "Bad Request"}
  /\ ~isSubmitting
  /\ calls = <<>>
  /\ SubmitRejection(totalItems, poNumber) = "none"
  /\ ordersCreated = 0

\* C6: after any failure of its creation call, auth expiry included, the
\* customer is still authenticated on the dashboard with the session as it
\* was, the workflow is not Submitting and the form is intact.
C6_FailureNonFatal ==
  [][ \A i \in 1..Len(calls) :
        (calls[i].live /\ (CreateFailed(i) \/ CreateExpired(i)))
          => /\ authenticated' /\ UNCHANGED session
             /\ ~isSubmitting' /\ FormKept ]_vars

\* C7: the call a submit starts carries the trimmed PO number and exactly
\* one item for each (selection, size) pair whose quantity is > 0, with that
\* selection's product, colour, size and quantity, and nothing else.
C7_CallCarriesProjection ==
  [][SubmitStarted =>
       LET body == calls'[Len(calls')].body
           pairs == PositivePairs(selections)
       IN  /\ IsTrimOf(body.poNumber, poNumber)
           /\ Len(body.items) = Cardinality(pairs)
           /\ \A k \in 1..Len(body.items) :
                /\ body.items[k].quantity > 0
                /\ \E p \in pairs : ItemOfPair(body.items[k], selections, p)
           /\ \A p \in pairs :
                \E k \in 1..Len(body.items) :
                  ItemOfPair(body.items[k], selections, p)]_vars

\* Navy, M = 5 and 32 = 0 was submitted as the single item M: 5.
C7_Witness ==
  /\ Len(calls) = 1
  /\ calls[1].posts = 1
  /\ Len(calls[1].body.items) = 1
  /\ calls[1].body.items[1].size = <<"M">>
  /\ calls[1].body.items[1].quantity = 5
  /\ calls[1].body.items[1].color = Navy
  /\ calls[1].body.poNumber = <<"A">>
  /\ ObjHas(selections, P0)
  /\ ObjGet(selections, P0).quantities =
       << [key |-> <<"3", "2">>, val |-> 0], [key |-> <<"M">>, val |-> 5] >>

\* C8: every stored quantity is a non-negative integer.
C8_QuantitiesNonNegative ==
  \A i \in 1..Len(selections) :
    \A j \in 1..Len(selections[i].val.quantities) :
      selections[i].val.quantities[j].val \in Nat

RECURSIVE StoredPositive(_)
StoredPositive(quantities) ==
  IF quantities = <<>> THEN 0
  ELSE (IF Head(quantities).val > 0 THEN Head(quantities).val ELSE 0)
         + StoredPositive(Tail(quantities))

RECURSIVE StoredPositiveTotal(_)
StoredPositiveTotal(sels) ==
  IF sels = <<>> THEN 0
  ELSE StoredPositive(Head(sels).val.quantities) + StoredPositiveTotal(Tail(sels))

\* C9: totalItems is the sum of the stored quantities that are > 0, which
\* is what the projected items carry, and it is 0 exactly when no item is
\* projected.
C9_TotalIsSumOfItems ==
  LET items == getOrderItems(selections, products)
  IN  /\ totalItems = StoredPositiveTotal(selections)
      /\ Len(items) = Cardinality(PositivePairs(selections))
      /\ totalItems = 0 <=> items = <<>>

\* A zero, a negative and a positive quantity are stored together.
C9_Witness ==
  /\ totalItems = 5
  /\ \E i \in 1..Len(selections) :
       \E j, k \in 1..Len(selections[i].val.quantities) :
         /\ selections[i].val.quantities[j].val = 0
         /\ selections[i].val.quantities[k].val < 0

\* C10: a selection whose stored quantities are all 0 projects no item,
\* and an empty, non-numeric or zero input stores 0.
C10_ZeroedProductProjectsNothing ==
  /\ \A value \in RawInputs :
       (\A i \in 1..Len(value) : ~IsDigit(value[i]) \/ value[i] = "0")
         => ParseQty(value) = 0
  /\ \A i \in 1..Len(selections) :
       (\A j \in 1..Len(selections[i].val.quantities) :
          selections[i].val.quantities[j].val = 0)
         => \A k \in 1..Len(getOrderItems(selections, products)) :
              getOrderItems(selections, products)[k].productId
                # selections[i].val.productId

\* A product with every size set to 0 is still selected, next to another
\* product that has items.
C10_Witness ==
  /\ ObjHas(selections, P2)
  /\ Len(ObjGet(selections, P2).quantities) = 3
  /\ \A j \in 1..3 : ObjGet(selections, P2).quantities[j].val = 0
  /\ totalItems > 0

(***************************************************************************)
(* Admin orders, order history, confirmation and export                    *)
(***************************************************************************)
\* The list shows another status for some order after the step.
ListStatusChanged ==
  \E i \in 1..Len(adminOrders) :
    adminOrders'[i].status # adminOrders[i].status

\* The open detail dialog shows another status for its order after the step.
DetailStatusChanged ==
  /\ selectedOrder # null
  /\ selectedOrder' # null
  /\ selectedOrder'[1].id = selectedOrder[1].id
  /\ selectedOrder'[1].status # selectedOrder[1].status

\* The step tells the admin that a status update is done.
StatusSuccessReported ==
  toast' = StatusUpdatedMessage /\ toast # StatusUpdatedMessage

\* C11: a status shown in the list or in the detail dialog changes, and a
\* status update is reported as done, only in a step in which an
\* updateOrderStatus call settles, that is after the collaborator confirmed.
C11_StatusOnlyAfterConfirmation ==
  [][ (ListStatusChanged \/ DetailStatusChanged \/ StatusSuccessReported)
        => Len(statusCalls') < Len(statusCalls) ]_vars

\* The order of the list the open detail dialog belongs to.
ListStatusOf(orderId) ==
  { adminOrders[i].status :
      i \in { j \in 1..Len(adminOrders) : adminOrders[j].id = orderId } }

\* C12: while a detail dialog is open its status is the status the list
\* holds for the order with the same id, and right after
\* handleStatusChange(id, s) the list entry of id, and the open dialog if it
\* is the dialog of id, show s; no request is sent for it.
C12_DetailMatchesList ==
  /\ [](selectedOrder # null
          => ListStatusOf(selectedOrder[1].id) = {selectedOrder[1].status})
  /\ [][ \A i \in 1..Len(adminOrders) : \A s \in 1..Len(statusOptions) :
           handleStatusChange(adminOrders[i].id, statusOptions[s])
             => /\ adminOrders'[i].status = statusOptions[s]
                /\ (selectedOrder # null
                      /\ selectedOrder[1].id = adminOrders[i].id)
                     => /\ selectedOrder' # null
                        /\ selectedOrder'[1].status = statusOptions[s]
                /\ statusCalls' = statusCalls
                /\ loads' = loads ]_vars

C12_Witness ==
  /\ selectedOrder # null
  /\ toast = StatusUpdatedMessage
  /\ selectedOrder[1].status = "shipped"
  /\ Len(adminOrders) = 2
  /\ adminOrders[2].id = selectedOrder[1].id
  /\ adminOrders[2].status = "shipped"
  /\ adminOrders[1].status = "pending"

\* Where the order with this id stands in a list.
IndexOfId(list, orderId) == CHOOSE i \in 1..Len(list) : list[i].id = orderId

\* stored holds exactly the fetched orders, newest first, and orders of one
\* day stand as they stood in fetched.
IsNewestFirstStable(fetched, stored) ==
  /\ Len(stored) = Len(fetched)
  /\ \A i \in 1..Len(fetched) : \E j \in 1..Len(stored) : stored[j] = fetched[i]
  /\ \A i \in 1..Len(stored) : \A j \in 1..Len(stored) :
       i < j =>
         \/ getTime(stored[i].createdAt) > getTime(stored[j].createdAt)
         \/ /\ stored[i].createdAt = stored[j].createdAt
            /\ IndexOfId(fetched, stored[i].id) < IndexOfId(fetched, stored[j].id)

\* C13: the list stored by a load that succeeds is a permutation of the
\* fetched orders, by createdAt descending, ties in their fetched order.
C13_StoredNewestFirst ==
  [][ \A i \in 1..Len(loads) :
        LoadSucceeded(i) => IsNewestFirstStable(loads[i].data, orders') ]_vars

\* Fetched as [Jan, Mar, Feb], stored as [Mar, Feb, Jan].
C13_Witness ==
  /\ Len(serverOrders) = 3
  /\ serverOrders[1].createdAt = Jan1
  /\ serverOrders[2].createdAt = Mar1
  /\ serverOrders[3].createdAt = Feb1
  /\ orders = <<serverOrders[2], serverOrders[3], serverOrders[1]>>

\* The load ends in apiFetch's clearTokens(); window.location.href = '/'.
LoadExpired(i) ==
  LoadRefreshFailed(i) \/ (~hasTokens /\ LoadUnauthorized(i))

\* C14: whenever a load of the dashboard fails, the stored list is the
\* list that was stored when the load started, and ordersLoading is false.
C14_FailureKeepsList ==
  [][ \A i \in 1..Len(loads) :
        (loads[i].live /\ (LoadFailed(i) \/ LoadExpired(i)))
          => /\ orders' = loads[i].held
             /\ ordersLoading' = FALSE ]_vars

\* The rows of the order history that are rendered expanded.
ExpandedRows == { i \in 1..Len(orders) : orders[i].id = expandedOrderId }

\* C15: at most one row of the order history is expanded; a click on the
\* row of B while another order A is expanded leaves B expanded, a click on
\* the expanded row leaves none expanded, a click while none is expanded
\* expands the row.
C15_OneExpanded ==
  /\ [](Cardinality(ExpandedRows) <= 1)
  /\ [][ \A i \in 1..Len(orders) :
           toggleOrderExpand(orders[i].id)
             => /\ (expandedOrderId # null /\ expandedOrderId # orders[i].id)
                     => expandedOrderId' = orders[i].id
                /\ expandedOrderId = orders[i].id => expandedOrderId' = null
                /\ expandedOrderId = null => expandedOrderId' = orders[i].id
                /\ orders' = orders ]_vars

C15_Witness ==
  /\ Len(orders) = 3
  /\ expandedOrderId = orders[2].id
  /\ ExpandedRows = {2}
  /\ OrderRowsShown

\* C16: when a creation call succeeds the confirmation holds the id of the
\* order the server returned and the PO number the call sent.
C16_ConfirmationShowsSubmitted ==
  [][ \A i \in 1..Len(calls) :
        CreateSucceeded(i)
          => /\ lastOrderId' = NumToChars(ordersCreated')
             /\ lastPoNumber' = calls[i].body.poNumber ]_vars

\* C17: when every request is answered in the end, isSubmitting does not
\* stay true; the response that settles a creation call, success or
\* failure, sets isSubmitting to false and leaves no call in flight, so the
\* submit button is enabled again.
C17_SubmittingEnds ==
  /\ isSubmitting ~> ~isSubmitting
  /\ [][ \A i \in 1..Len(calls) :
           (CreateSucceeded(i) \/ CreateFailed(i))
             => ~isSubmitting' /\ calls' = <<>> /\ SubmitEnabled' ]_vars

\* A failed submission has been answered and the same form can be
\* submitted again.
C17_Witness ==
  /\ toast = FailureMessage
  /\ ~isSubmitting
  /\ calls = <<>>
  /\ CatalogShown
  /\ SubmitRejection(totalItems, poNumber) = "none"
  /\ ordersCreated = 1

\* C18: the handler reports the two causes apart, no quantity before a
\* blank PO number; a submit that validation rejects starts no call and
\* changes nothing but the error shown: with a quantity selected and a
\* blank PO number poError becomes 'PO Number is required'.  The button is
\* rendered only while a quantity is selected, so no submit from the page
\* is turned down for want of items.
C18_RejectionOnlyReports ==
  /\ \A po \in PoInputs :
       /\ SubmitRejection(0, po) = "items"
       /\ SubmitRejection(1, po) = IF Trim(po) = <<>> THEN "po" ELSE "none"
  /\ [][ (handleSubmitOrder /\ ~SubmitStarted)
        => /\ UNCHANGED <<selections, products, poNumber, isSubmitting,
                          lastOrderId, lastPoNumber, showConfirmation, calls, net>>
           /\ ~isSubmitting'
           /\ totalItems = 0
                => toast' = NoItemsMessage /\ poError' = poError
           /\ totalItems > 0
                => /\ Trim(poNumber) = <<>>
                   /\ poError' = PoRequiredMessage
                   /\ toast' = toast ]_vars

C18_Witness ==
  /\ poError = PoRequiredMessage
  /\ totalItems > 0
  /\ poNumber = BlankPo
  /\ ~isSubmitting
  /\ calls = <<>>
  /\ toast # NoItemsMessage

\* C19: the body of a creation request holds the PO number and the items
\* and nothing else.
C19_BodyHasOnlyPoAndItems ==
  \A i \in 1..Len(calls) : DOMAIN calls[i].body = {"poNumber", "items"}


HeaderLine ==
  <<"Order ID", ",", "Customer", ",", "PO Number", ",", "Items", ",",
    "Status", ",", "Date">>

\* yyyy-MM-dd of the days the orders are dated on.
DateText(date) ==
  IF date = Jan1 THEN <<"2", "0", "2", "4", "-", "0", "1", "-", "0", "1">>
  ELSE IF date = Feb1 THEN <<"2", "0", "2", "4", "-", "0", "2", "-", "0", "1">>
  ELSE <<"2", "0", "2", "4", "-", "0", "3", "-", "0", "1">>

\* C20: an export of n listed orders writes n + 1 lines, the header and one
\* line for each order in list order, each line of six fields: id, customer
\* name, PO number, total items, status, day of creation; the list is left
\* as it is.
C20_ExportWellFormed ==
  [][ exportToExcel
        => LET lines == Split(exported', "\n", <<>>)
               n == Len(filteredOrders)
           IN  /\ Len(lines) = n + 1
               /\ lines[1] = HeaderLine
               /\ \A k \in 1..n :
                    LET fields == Split(lines[k + 1], ",", <<>>)
                        order == filteredOrders[k]
                    IN  /\ Len(fields) = 6
                        /\ fields[1] = order.id
                        /\ fields[2] = order.customerName
                        /\ fields[3] = order.poNumber
                        /\ fields[4] = NumToChars(order.totalItems)
                        /\ fields[5] = <<order.status>>
                        /\ fields[6] = DateText(order.createdAt)
               /\ adminOrders' = adminOrders ]_vars

(***************************************************************************)
(* Admin status changes: frame and lifecycle                               *)
(***************************************************************************)
\* Two orders agree on everything but, possibly, the status.
SameButStatus(a, b) == [a EXCEPT !.status = b.status] = b

\* after is before with at most the status of the orders of this id changed.
OnlyStatusOf(before, after, orderId) ==
  /\ Len(after) = Len(before)
  /\ \A i \in 1..Len(before) :
       IF before[i].id = orderId
       THEN SameButStatus(before[i], after[i])
       ELSE after[i] = before[i]

\* An id no order of the mock data has.
AbsentId == <<"9">>

\* C21: handleStatusChange(id, s) changes nothing in the list but the
\* status of the order with that id: the other orders, the other fields of
\* that order, the length and the ordering stay; with an id that no order
\* of the list has, the list it computes is the list as it was.
C21_OnlyStatusOfMatching ==
  /\ [][ \A i \in 1..Len(adminOrders) : \A s \in 1..Len(statusOptions) :
           handleStatusChange(adminOrders[i].id, statusOptions[s])
             => OnlyStatusOf(adminOrders, adminOrders', adminOrders[i].id) ]_vars
  /\ [](\A s \in 1..Len(statusOptions) :
          StatusChangedList(adminOrders, AbsentId, statusOptions[s])
            = adminOrders)

C21_Witness ==
  /\ toast = StatusUpdatedMessage
  /\ selectedOrder = null
  /\ Len(adminOrders) = 2
  /\ adminOrders[1].status = "delivered"
  /\ adminOrders[2].status = "confirmed"
  /\ adminOrders[2].customerName = <<"B", ",", "C">>

\* C22: handleStatusChange takes any of the five statuses whatever the
\* current one, backward moves and the current status included, and leaves
\* the order with exactly that status; every status held is one of the five.
C22_AnyStatusToAny ==
  /\ [](\A i \in 1..Len(adminOrders) :
          /\ \E k \in 1..Len(statusOptions) :
               adminOrders[i].status = statusOptions[k]
          /\ \A s \in 1..Len(statusOptions) :
               ENABLED handleStatusChange(adminOrders[i].id, statusOptions[s]))
  /\ [][ \A i \in 1..Len(adminOrders) : \A s \in 1..Len(statusOptions) :
           handleStatusChange(adminOrders[i].id, statusOptions[s])
             => adminOrders'[i].status = statusOptions[s] ]_vars

\* An order stands at the first status while another stands at the last,
\* after a status was set.
C22_Witness ==
  /\ toast = StatusUpdatedMessage
  /\ Len(adminOrders) = 2
  /\ adminOrders[1].status = "delivered"
  /\ adminOrders[2].status = "pending"
  /\ selectedOrder # null
  /\ selectedOrder[1].status = "pending"

(***************************************************************************)
(* Selection edits: frame, emission order, size keys                       *)
(***************************************************************************)
\* The entry a map holds under a key, as a sequence of none or one.
EntryOf(obj, k) == SelectSeq(obj, LAMBDA e : e.key = k)

\* The quantities stored for a product, none when it has no selection.
QuantitiesOf(sels, productId) ==
  IF ObjHas(sels, productId) THEN ObjGet(sels, productId).quantities ELSE <<>>

\* The selections of all products but this one are as they were.
OthersKept(product) ==
  \A j \in 1..Len(products) :
    products[j].id # product.id
      => EntryOf(selections', products[j].id) = EntryOf(selections, products[j].id)

\* The quantity inputs a product's row shows: one for each size label and
\* one for each numeric size.
SizeInputs(product) ==
  { <<"sizes", s>> : s \in 1..Len(product.sizes) }
    \cup { <<"sizesInNumber", s>> : s \in 1..Len(product.sizesInNumber) }

\* The size a quantity input hands to its handler, as the property key the
\* handler's computed key [size] makes of it.
SizeOf(product, input) ==
  IF input[1] = "sizes"
  THEN product.sizes[input[2]]
  ELSE NumToChars(product.sizesInNumber[input[2]])

\* What each raw input of a quantity field is stored as.
StoredAs == [value \in RawInputs |-> ParseQty(value)]

\* value={selection?.quantities[size] || ''}: what the quantity input of a
\* size shows, 0 standing for the empty field.
ShownQuantity(sels, product, size) ==
  IF ObjHas(sels, product.id)
       /\ ObjHas(ObjGet(sels, product.id).quantities, size)
  THEN ObjGet(ObjGet(sels, product.id).quantities, size)
  ELSE 0

\* C23: a colour edit keeps the quantities of the product's selection and
\* sets its colour; a quantity edit made in one size input of a product
\* keeps the selection's colour and the quantity stored and shown for
\* every other size input of the product; neither touches the selection of
\* another product.
C23_EditsAreFieldLocal ==
  /\ [][ \A i \in 1..Len(products) : \A c \in 1..Len(products[i].colors) :
           (/\ selections' # selections
            /\ selections' = ColorChanged(selections, products[i],
                                          products[i].colors[c]))
             => /\ QuantitiesOf(selections', products[i].id)
                     = QuantitiesOf(selections, products[i].id)
                /\ ObjGet(selections', products[i].id).selectedColor
                     = products[i].colors[c]
                /\ OthersKept(products[i]) ]_vars
  /\ [][ \A i \in 1..Len(products) :
         \A edited \in SizeInputs(products[i]) : \A value \in RawInputs :
           (/\ selections' # selections
            /\ selections' = QuantityChanged(selections, products[i],
                                SizeOf(products[i], edited), value))
             => LET product == products[i]
                    before == QuantitiesOf(selections, product.id)
                    after == QuantitiesOf(selections', product.id)
                IN  /\ ObjGet(selections', product.id).selectedColor
                         = IF ObjHas(selections, product.id)
                           THEN ObjGet(selections, product.id).selectedColor
                           ELSE product.colors[1]
                    /\ \A other \in SizeInputs(product) \ {edited} :
                         LET size == SizeOf(product, other)
                         IN  /\ EntryOf(after, size) = EntryOf(before, size)
                             /\ ShownQuantity(selections', product, size)
                                  = ShownQuantity(selections, product, size)
                    /\ OthersKept(product) ]_vars

(***************************************************************************)
(* Order of the projected items                                            *)
(***************************************************************************)
\* The keys of an object, in enumeration order.
KeysOf(obj) == [i \in 1..Len(obj) |-> obj[i].key]

\* Where key k stands in obj's enumeration order.
KeyIndex(obj, k) == CHOOSE i \in 1..Len(obj) : obj[i].key = k

\* The keys both objects hold are enumerated in the same relative order.
SameRelativeOrder(before, after) ==
  SelectSeq(KeysOf(before), LAMBDA k : ObjHas(after, k))
    = SelectSeq(KeysOf(after), LAMBDA k : ObjHas(before, k))

\* Integer keys come first, ascending; every other key follows them.
IndexKeysFirst(obj) ==
  \A a, b \in 1..Len(obj) :
    a < b =>
      /\ IsIndexKey(obj[b].key) => IsIndexKey(obj[a].key)
      /\ IsIndexKey(obj[b].key)
           => IndexLess(obj[a].key, obj[b].key)

\* The place of an item: its selection's, then its size's within it.
ItemSelection(item) == KeyIndex(selections, item.productId)

ItemSize(item) ==
  KeyIndex(ObjGet(selections, item.productId).quantities, item.size)

\* C24 as stated: a size that receives its first quantity is emitted after
\* every size of the selection that received one before.
C24_Original ==
  [][ \A i \in 1..Len(products) :
        LET before == QuantitiesOf(selections, products[i].id)
            after == QuantitiesOf(selections', products[i].id)
            items == SelectionItems(ObjGet(selections', products[i].id),
                                    products)
        IN  \A k \in 1..Len(after) :
              (~ObjHas(before, after[k].key) /\ KeepsEntry(after[k].val))
                => items[Len(items)].size = after[k].key ]_vars

\* C24: the items are emitted selection by selection in the enumeration
\* order of the selections, and within a selection in the enumeration
\* order of its quantities.  Both orders put the keys that are the decimal
\* text of an integer first, ascending, and the other keys after them in
\* the order they were added.  No edit reorders the selections or the
\* sizes already there, and a new selection or size whose key is not an
\* integer is added last.
C24_EmissionOrder ==
  /\ [] LET items == getOrderItems(selections, products)
        IN  /\ \A a, b \in 1..Len(items) :
                 a < b =>
                   \/ ItemSelection(items[a]) < ItemSelection(items[b])
                   \/ /\ ItemSelection(items[a]) = ItemSelection(items[b])
                      /\ ItemSize(items[a]) < ItemSize(items[b])
            /\ IndexKeysFirst(selections)
            /\ \A s \in 1..Len(selections) :
                 IndexKeysFirst(selections[s].val.quantities)
  /\ [][ /\ SameRelativeOrder(selections, selections')
         /\ \A s \in 1..Len(selections') :
              (~ObjHas(selections, selections'[s].key)
                 /\ ~IsIndexKey(selections'[s].key))
                => s = Len(selections')
         /\ \A i \in 1..Len(products) :
              LET before == QuantitiesOf(selections, products[i].id)
                  after == QuantitiesOf(selections', products[i].id)
              IN  (ObjHas(selections, products[i].id)
                     /\ ObjHas(selections', products[i].id))
                    => /\ SelectSeq(KeysOf(after),
                                    LAMBDA k : ObjHas(before, k))
                            = KeysOf(before)
                       /\ \A k \in 1..Len(after) :
                            (~ObjHas(before, after[k].key)
                               /\ ~IsIndexKey(after[k].key))
                              => k = Len(after) ]_vars

\* The product of id 2 was selected before the product of id 1 and is
\* emitted after it, and it holds quantities for the sizes M and 32,
\* emitted as 32 then M.
C24_Witness ==
  /\ KeysOf(selections) = <<N1, N2>>
  /\ LET items == getOrderItems(selections, products)
     IN  /\ Len(items) = 3
         /\ items[1].productId = N1
         /\ items[2].size = <<"3", "2">>
         /\ items[3].size = <<"M">>

(***************************************************************************)
(* Size keys                                                               *)
(***************************************************************************)
\* C25: setting the quantity of a numeric size changes the quantity shown
\* for no string size of the product, and setting the quantity of a string
\* size changes the quantity shown for no numeric size.
C25_SizesNeverCollide ==
  [][ \A i \in 1..Len(products) :
      \A n \in 1..Len(products[i].sizesInNumber) :
      \A s \in 1..Len(products[i].sizes) :
        LET product == products[i]
            number == NumToChars(product.sizesInNumber[n])
            label == product.sizes[s]
        IN  \A value \in RawInputs :
              /\ ShownQuantity(selections', product, label)
                     # ShownQuantity(selections, product, label)
                   => selections'
                        # QuantityChanged(selections, product, number, value)
              /\ ShownQuantity(selections', product, number)
                     # ShownQuantity(selections, product, number)
                   => selections'
                        # QuantityChanged(selections, product, label, value) ]_vars

\* The items of a sequence, as a set.
ItemSet(items) == { items[k] : k \in 1..Len(items) }

\* C26: when a creation call succeeds, every item of the selections the
\* success clears was sent in the body of that call.
C26_DiscardedWasSubmitted ==
  [][ \A i \in 1..Len(calls) :
        CreateSucceeded(i)
          => /\ selections' = <<>>
             /\ ItemSet(getOrderItems(selections, products))
                  \subseteq ItemSet(calls[i].body.items) ]_vars

(***************************************************************************)
(* Overlapping loads of the order history                                  *)
(***************************************************************************)
\* POST /orders of any session is answered 2xx: the server holds one more
\* order, which every GET /orders answered from now on includes.
ServerOrderAdded ==
  /\ Len(serverOrders) < MaxServerOrders
  /\ \E createdAt \in OrderDates :
       serverOrders' = Append(serverOrders,
                              ServerOrder(Len(serverOrders) + 1, createdAt))
  /\ UNCHANGED <<server, session, cart, form, toast, calls, net, history, admin, access,
                 area>>

\* A GET /orders in flight is answered 2xx.
LoadSuccess == \E i \in 1..Len(loads) : LoadSucceeded(i)

\* Loads of the order history that all succeed, while the server's orders
\* grow between them.
InitOverlap ==
  /\ catalog = CatalogOne
  /\ serverOrders = <<>>
  /\ Mounted
  /\ AdminUnmounted

NextOverlap ==
  \/ LoadProducts
  \/ ServerOrderAdded
  \/ handleTabChange
  \/ LoadSuccess

SpecOverlap == InitOverlap /\ [][NextOverlap]_vars

\* C27: when the last of the loads in flight succeeds, the stored list is
\* the result of the most recently started load.  The server's orders only
\* grow, so that result holds every order any earlier load was answered
\* with: the stored list never gets shorter.
C27_LatestStartedLoadWins ==
  [][ \A i \in 1..Len(loads) :
        (LoadSucceeded(i) /\ loads' = <<>>)
          => Len(orders') >= Len(orders) ]_vars

\* C28: ordersLoading is true exactly while a fetch started by loadOrders
\* has not settled.
C28_LoadingTracksFetches == ordersLoading <=> loads # <<>>

\* C29: while the PO error is set the PO number is blank after trimming;
\* the error is set only by a submit of a blank PO number with items
\* selected, and every change of the PO number, and every creation call
\* that succeeds, clears it.
C29_PoErrorMeansBlankPo ==
  /\ [](poError # "" => (poError = PoRequiredMessage /\ Trim(poNumber) = <<>>))
  /\ [][ /\ (poError = "" /\ poError' # "")
              => /\ SubmitRejection(totalItems, poNumber) = "po"
                 /\ Trim(poNumber) = <<>>
                 /\ UNCHANGED <<poNumber, calls, net>>
         /\ poNumber' # poNumber => poError' = ""
         /\ \A i \in 1..Len(calls) : CreateSucceeded(i) => poError' = "" ]_vars

\* After an order was placed, a submit of a PO number of one space has set
\* the error.
C29_Witness ==
  /\ ordersCreated = 1
  /\ poError = PoRequiredMessage
  /\ poNumber = BlankPo
  /\ ~showConfirmation

(***************************************************************************)
(* The product access dialog                                               *)
(***************************************************************************)
\* The admin customers page over every assignment the server may hold.
InitAccess ==
  /\ catalog = CatalogOne
  /\ serverOrders = <<>>
  /\ AdminSession("adminCustomers")
  /\ mockOrders = <<>>
  /\ AdminMounted
  /\ serverCustomers = CustomerList
  /\ CustomersMounted
  /\ assigned \in AccessAssignments

NextAccess ==
  \/ LoadCustomers
  \/ OpenProductAccess
  \/ CloseProductAccess
  \/ toggleProduct
  \/ handleSelectAll
  \/ handleSaveProductAccess
  \/ AccessResponse
  \/ Logout
  \/ LogoutResponse
  \/ Reload

SpecAccess == InitAccess /\ [][NextAccess]_vars

\* C30: the answer to the load started for one customer never changes the
\* selection while the dialog is open for another customer.
C30_LoadStaysWithItsCustomer ==
  [][ \A i \in 1..Len(accessCalls) :
        (/\ (AccessProductsSucceeded(i) \/ AccessIdsSucceeded(i))
         /\ productAccessUser # null
         /\ productAccessUser[1].id # accessCalls[i].user.id)
          => selectedProductIds' = selectedProductIds ]_vars

=============================================================================
